---- MODULE Spec2Model ----
(***************************************************************************)
(* The CCM builder of enhanced_analyzer.py (class CCMConverter): the       *)
(* two-phase conversion of a flat IR batch (modules, classes, functions,   *)
(* comments) into the node graph, its lookup table, its relationships and  *)
(* the resolution metadata.                                                *)
(*                                                                         *)
(* A Python str is a sequence of one-character strings, so that slicing,   *)
(* split, strip, startswith, "in" and f-string concatenation are computed  *)
(* as the code computes them.  Optional[T] is <<>> (None) or <<x>>.        *)
(***************************************************************************)
EXTENDS Integers, Sequences, FiniteSets, TLC

(***************************************************************************)
(* Bounds of the model.                                                    *)
(***************************************************************************)
\* Largest number of IR entities (modules + classes + functions + comments)
\* handed to one convert_to_ccm call.
MaxBatch == 4

(***************************************************************************)
(* Python str and Optional helpers.                                        *)
(***************************************************************************)
None == <<>>

Some(x) == <<x>>

\* Python truthiness of an Optional[str]: None and "" are both falsy.
Truthy(opt) == opt # None /\ opt[1] # <<>>

\* c in s, for a one-character c
HasChar(s, c) == \E k \in DOMAIN s : s[k] = c

\* s.startswith(p)
StartsWith(s, p) == Len(s) >= Len(p) /\ SubSeq(s, 1, Len(p)) = p

\* s[n:], n >= 0
DropFirst(s, n) == SubSeq(s, n + 1, Len(s))

\* the characters str.strip() removes
Whitespace == {" ", "\t", "\n", "\r"}

RECURSIVE LStrip(_)
LStrip(s) ==
    IF s # <<>> /\ Head(s) \in Whitespace THEN LStrip(Tail(s)) ELSE s

RECURSIVE RStrip(_)
RStrip(s) ==
    IF s # <<>> /\ s[Len(s)] \in Whitespace
    THEN RStrip(SubSeq(s, 1, Len(s) - 1))
    ELSE s

\* s.strip()
Strip(s) == RStrip(LStrip(s))

\* s.lstrip(c), for a one-character c
RECURSIVE LStripChar(_, _)
LStripChar(s, c) ==
    IF s # <<>> /\ Head(s) = c THEN LStripChar(Tail(s), c) ELSE s

\* s.find(sep) + 1: the first position where sep occurs in s, 0 if none
Find(s, sep) ==
    LET hits == { k \in 1..(Len(s) - Len(sep) + 1) :
                    SubSeq(s, k, k + Len(sep) - 1) = sep }
    IN  IF hits = {} THEN 0 ELSE CHOOSE k \in hits : \A h \in hits : k <= h

\* s.split(sep): the pieces between the non-overlapping occurrences of sep,
\* left to right; always at least one piece
RECURSIVE Split(_, _)
Split(s, sep) ==
    LET k == Find(s, sep)
    IN  IF k = 0
        THEN <<s>>
        ELSE <<SubSeq(s, 1, k - 1)>> \o Split(DropFirst(s, k + Len(sep) - 1), sep)

\* s.split(sep, 1)
SplitOnce(s, sep) ==
    LET k == Find(s, sep)
    IN  IF k = 0
        THEN <<s>>
        ELSE <<SubSeq(s, 1, k - 1), DropFirst(s, k + Len(sep) - 1)>>

\* seq[-1]
Last(seq) == seq[Len(seq)]

\* the decimal digits of n >= 0, as str(n) gives them
DigitChar == <<"0", "1", "2", "3", "4", "5", "6", "7", "8", "9">>

RECURSIVE Digits(_)
Digits(n) ==
    IF n < 10
    THEN <<DigitChar[n + 1]>>
    ELSE Digits(n \div 10) \o <<DigitChar[(n % 10) + 1]>>

\* format(n, "0{w}d"): zero-padded on the left to at least w characters
RECURSIVE ZeroPad(_, _)
ZeroPad(s, w) == IF Len(s) >= w THEN s ELSE ZeroPad(<<"0">> \o s, w)

\* {}
EmptyDict == [k \in {} |-> k]

\* dict[key] = value
PutKeepingFirst(d, key, value) ==
    [k \in (DOMAIN d) \cup {key} |-> IF k \in DOMAIN d THEN d[k] ELSE value]

Put(d, key, value) ==
    [k \in (DOMAIN d) \cup {key} |-> IF k = key THEN value ELSE d[k]]

\* all sequences over S of length at most n
SeqsUpTo(S, n) == UNION { [1..m -> S] : m \in 0..n }


(***************************************************************************)
(* String literals of the converter.                                       *)
(***************************************************************************)
s_module == <<"m", "o", "d", "u", "l", "e">>

s_class == <<"c", "l", "a", "s", "s">>

s_function == <<"f", "u", "n", "c", "t", "i", "o", "n">>

s_comment == <<"c", "o", "m", "m", "e", "n", "t">>

s_underscore == <<"_">>

s_dot == <<".">>

s_colon == <<":">>

s_equals == <<"=">>

s_star == <<"*">>

s_import_ == <<"i", "m", "p", "o", "r", "t", " ">>

s_from_ == <<"f", "r", "o", "m", " ">>

s__as_ == <<" ", "a", "s", " ">>

s__import_ == <<" ", "i", "m", "p", "o", "r", "t", " ">>

s___init__ == <<"_", "_", "i", "n", "i", "t", "_", "_">>

s_constructor == <<"c", "o", "n", "s", "t", "r", "u", "c", "t", "o", "r">>

s_init == <<"i", "n", "i", "t">>


(***************************************************************************)
(* Names and raw texts of the IR batches the model converts.               *)
(***************************************************************************)
n_app == <<"a", "p", "p">>

n_lib == <<"l", "i", "b">>

n_util == <<"u", "t", "i", "l">>

n_Dog == <<"D", "o", "g">>

n_Animal == <<"A", "n", "i", "m", "a", "l">>

n_Base == <<"B", "a", "s", "e">>

n_main == <<"m", "a", "i", "n">>

n_helper == <<"h", "e", "l", "p", "e", "r">>

n_get == <<"g", "e", "t">>

n_speak == <<"s", "p", "e", "a", "k">>

n_missing == <<"m", "i", "s", "s", "i", "n", "g">>

n_x == <<"x">>

n_sum == <<"a", "+", "b">>

n_lib_get == <<"l", "i", "b", ".", "g", "e", "t">>

n_argv == <<"a", "r", "g", "v">>

n_self == <<"s", "e", "l", "f">>

n_n_default == <<"n", " ", "=", " ", "1">>

n_star_args == <<"*", "a", "r", "g", "s">>

n_todo == <<"t", "o", "d", "o">>

i_import_lib == <<"i", "m", "p", "o", "r", "t", " ", "l", "i", "b">>

i_import_os == <<"i", "m", "p", "o", "r", "t", " ", "o", "s", ".", "p", "a", "t", "h", " ", "a", "s", " ", "p">>

i_from_app == <<"f", "r", "o", "m", " ", "a", "p", "p", " ", "i", "m", "p", "o", "r", "t", " ", "m", "a", "i", "n">>

i_use_std == <<"u", "s", "e", " ", "s", "t", "d", ":", ":", "i", "o", ";">>

i_from_lib_sub == <<"f", "r", "o", "m", " ", "l", "i", "b", ".", "s", "u", "b", " ", "i", "m", "p", "o", "r", "t", " ", "x">>


(***************************************************************************)
(* The IR batches.  Each entity is one of a few records that between them  *)
(* give: two files with the same stem, a class and a function of the same  *)
(* name, a method whose class may be missing from the batch, imports in    *)
(* the "import", "from" and a non-Python form, parents and calls that do   *)
(* and do not resolve, and calls the noise filter drops.                   *)
(***************************************************************************)
ModuleInfos ==
    { [name |-> n_app, imports |-> <<i_import_lib, i_import_os>>, language |-> "python"],
      [name |-> n_lib, imports |-> <<i_from_app>>, language |-> "python"],
      [name |-> n_util, imports |-> <<i_use_std, i_from_lib_sub>>, language |-> "rust"] }

ClassInfos ==
    { [name |-> n_Dog, parent_classes |-> <<n_Animal, n_Base>>,
       module_name |-> n_app, language |-> "python"],
      [name |-> n_Animal, parent_classes |-> <<>>,
       module_name |-> n_lib, language |-> "python"],
      [name |-> n_helper, parent_classes |-> <<n_Animal>>,
       module_name |-> n_lib, language |-> "python"] }

FunctionInfos ==
    { [name |-> n_main, parameters |-> <<n_argv>>,
       calls |-> <<n_helper, n_get, n_missing>>,
       class_name |-> None, module_name |-> n_app, language |-> "python"],
      [name |-> n_helper, parameters |-> <<>>, calls |-> <<>>,
       class_name |-> None, module_name |-> n_lib, language |-> "python"],
      [name |-> n_get, parameters |-> <<n_star_args>>, calls |-> <<n_main>>,
       class_name |-> None, module_name |-> n_lib, language |-> "python"],
      [name |-> n_speak, parameters |-> <<n_self, n_n_default>>,
       calls |-> <<n_helper, n_x>>,
       class_name |-> Some(n_Dog), module_name |-> n_app, language |-> "python"],
      [name |-> s_init, parameters |-> <<>>, calls |-> <<n_sum, n_lib_get>>,
       class_name |-> None, module_name |-> n_lib, language |-> "go"] }

CommentInfos ==
    { [content |-> n_todo, line_number |-> 3, comment_type |-> "line",
       language |-> "python"] }

(***************************************************************************)
(* CCMConverter: the pure parts.                                           *)
(***************************************************************************)
\* the minimum width of the counter in an id ("{counter:06d}")
IdWidth == 6

\* _generate_id: the counter is incremented, then formatted after the prefix
generate_idStuck(prefix, counter) ==
    [counter |-> counter,
     id |-> prefix \o s_underscore \o ZeroPad(Digits(counter), IdWidth)]

generate_id(prefix, counter) ==
    [counter |-> counter + 1,
     id |-> prefix \o s_underscore \o ZeroPad(Digits(counter + 1), IdWidth)]

\* _convert_parameters, for one parameter (the batches carry no type
\* annotations, so type_info stays None)
convert_parameter(param) ==
    LET has_default == HasChar(param, "=")
        parts == SplitOnce(param, s_equals)
        name0 == IF has_default THEN Strip(parts[1]) ELSE param
        is_variadic == StartsWith(name0, s_star)
    IN  [name |-> IF is_variadic THEN LStripChar(name0, "*") ELSE name0,
         type_info |-> None,
         default_value |-> IF has_default THEN Some(Strip(parts[2])) ELSE None,
         is_optional |-> has_default,
         is_variadic |-> is_variadic]

convert_parameters(parameters) ==
    [k \in DOMAIN parameters |-> convert_parameter(parameters[k])]

\* the context argument of _find_target_id when the caller passes none
NoContext == [module |-> None, class |-> None]

\* the candidate keys of _find_target_id, in priority order
candidatesContextFirst(target_name, context) ==
    LET m == context.module[1]
    IN  (IF Truthy(context.module)
         THEN << m \o s_dot \o target_name >>
         ELSE <<>>)
        \o << target_name,
              s_function \o s_colon \o target_name,
              s_class \o s_colon \o target_name,
              s_module \o s_colon \o target_name >>

candidates(target_name, context) ==
    LET current_module == context.module
        current_class == context.class
        m == current_module[1]
        c == current_class[1]
    IN  << target_name,
           s_function \o s_colon \o target_name,
           s_class \o s_colon \o target_name,
           s_module \o s_colon \o target_name >>
        \o (IF Truthy(current_module)
            THEN << m \o s_dot \o target_name,
                    s_function \o s_colon \o m \o s_dot \o target_name,
                    s_class \o s_colon \o m \o s_dot \o target_name >>
            ELSE <<>>)
        \o (IF Truthy(current_class)
            THEN << c \o s_dot \o target_name,
                    s_function \o s_colon \o c \o s_dot \o target_name >>
                 \o (IF Truthy(current_module)
                     THEN << m \o s_dot \o c \o s_dot \o target_name,
                             s_function \o s_colon \o m \o s_dot \o c
                                \o s_dot \o target_name >>
                     ELSE <<>>)
            ELSE <<>>)

\* _find_target_id handing the name back where no candidate is a key
find_target_idEchoingName(target_name, node_lookup, context) ==
    IF target_name = <<>>
    THEN <<>>
    ELSE LET cands == candidates(target_name, context)
             hits == { k \in DOMAIN cands : cands[k] \in DOMAIN node_lookup }
         IN  IF hits = {}
             THEN target_name
             ELSE node_lookup[cands[CHOOSE k \in hits : \A h \in hits : k <= h]]

\* _find_target_id: the id under the first candidate in the lookup table, "" if none
find_target_id(target_name, node_lookup, context) ==
    IF target_name = <<>>
    THEN <<>>
    ELSE LET cands == candidates(target_name, context)
             hits == { k \in DOMAIN cands : cands[k] \in DOMAIN node_lookup }
         IN  IF hits = {}
             THEN <<>>
             ELSE node_lookup[cands[CHOOSE k \in hits : \A h \in hits : k <= h]]

builtin_functions ==
    { <<"p","r","i","n","t">>,
      <<"l","e","n">>,
      <<"r","a","n","g","e">>,
      <<"s","t","r">>,
      <<"i","n","t">>,
      <<"f","l","o","a","t">>,
      <<"b","o","o","l">>,
      <<"l","i","s","t">>,
      <<"d","i","c","t">>,
      <<"s","e","t">>,
      <<"t","u","p","l","e">>,
      <<"a","b","s">>,
      <<"a","l","l">>,
      <<"a","n","y">>,
      <<"b","i","n">>,
      <<"c","h","r">>,
      <<"d","i","r">>,
      <<"d","i","v","m","o","d">>,
      <<"e","n","u","m","e","r","a","t","e">>,
      <<"e","v","a","l">>,
      <<"e","x","e","c">>,
      <<"f","i","l","t","e","r">>,
      <<"f","o","r","m","a","t">>,
      <<"g","e","t","a","t","t","r">>,
      <<"h","a","s","a","t","t","r">>,
      <<"h","a","s","h">>,
      <<"h","e","x">>,
      <<"i","d">>,
      <<"i","n","p","u","t">>,
      <<"i","s","i","n","s","t","a","n","c","e">>,
      <<"i","s","s","u","b","c","l","a","s","s">>,
      <<"i","t","e","r">>,
      <<"m","a","p">>,
      <<"m","a","x">>,
      <<"m","i","n">>,
      <<"n","e","x","t">>,
      <<"o","c","t">>,
      <<"o","p","e","n">>,
      <<"o","r","d">>,
      <<"p","o","w">>,
      <<"r","e","p","r">>,
      <<"r","e","v","e","r","s","e","d">>,
      <<"r","o","u","n","d">>,
      <<"s","e","t","a","t","t","r">>,
      <<"s","o","r","t","e","d">>,
      <<"s","u","m">>,
      <<"t","y","p","e">>,
      <<"v","a","r","s">>,
      <<"z","i","p">>,
      <<"c","o","n","s","o","l","e",".","l","o","g">>,
      <<"p","a","r","s","e","I","n","t">>,
      <<"p","a","r","s","e","F","l","o","a","t">>,
      <<"i","s","N","a","N">>,
      <<"i","s","F","i","n","i","t","e">>,
      <<"e","n","c","o","d","e","U","R","I">>,
      <<"d","e","c","o","d","e","U","R","I">>,
      <<"s","e","t","T","i","m","e","o","u","t">>,
      <<"s","e","t","I","n","t","e","r","v","a","l">>,
      <<"c","l","e","a","r","T","i","m","e","o","u","t">>,
      <<"c","l","e","a","r","I","n","t","e","r","v","a","l">>,
      <<"a","p","p","e","n","d">>,
      <<"e","x","t","e","n","d">>,
      <<"i","n","s","e","r","t">>,
      <<"r","e","m","o","v","e">>,
      <<"p","o","p">>,
      <<"c","l","e","a","r">>,
      <<"i","n","d","e","x">>,
      <<"c","o","u","n","t">>,
      <<"s","o","r","t">>,
      <<"r","e","v","e","r","s","e">>,
      <<"c","o","p","y">>,
      <<"g","e","t">>,
      <<"k","e","y","s">>,
      <<"v","a","l","u","e","s">>,
      <<"i","t","e","m","s">>,
      <<"u","p","d","a","t","e">>,
      <<"a","d","d">>,
      <<"d","i","s","c","a","r","d">>,
      <<"u","n","i","o","n">>,
      <<"i","n","t","e","r","s","e","c","t","i","o","n">>,
      <<"d","i","f","f","e","r","e","n","c","e">>,
      <<"s","p","l","i","t">>,
      <<"j","o","i","n">>,
      <<"s","t","r","i","p">>,
      <<"r","e","p","l","a","c","e">>,
      <<"f","i","n","d">>,
      <<"s","t","a","r","t","s","w","i","t","h">>,
      <<"e","n","d","s","w","i","t","h">>,
      <<"u","p","p","e","r">>,
      <<"l","o","w","e","r">>,
      <<"c","a","p","i","t","a","l","i","z","e">>,
      <<"t","i","t","l","e">> }
common_patterns ==
    { <<"a","p","p","e","n","d">>,
      <<"e","x","t","e","n","d">>,
      <<"i","n","s","e","r","t">>,
      <<"r","e","m","o","v","e">>,
      <<"p","o","p">>,
      <<"c","l","e","a","r">>,
      <<"g","e","t">>,
      <<"s","e","t">>,
      <<"a","d","d">>,
      <<"d","e","l","e","t","e">>,
      <<"u","p","d","a","t","e">>,
      <<"k","e","y","s">>,
      <<"v","a","l","u","e","s">>,
      <<"p","u","s","h">>,
      <<"s","h","i","f","t">>,
      <<"u","n","s","h","i","f","t">>,
      <<"s","l","i","c","e">>,
      <<"s","p","l","i","c","e">>,
      <<"c","o","n","c","a","t">>,
      <<"t","o","S","t","r","i","n","g">>,
      <<"v","a","l","u","e","O","f">>,
      <<"h","a","s","O","w","n","P","r","o","p","e","r","t","y">> }

\* the characters that mark a call text as an expression
special_chars == {"(", ")", "[", "]", "{", "}", "+", "-", "*", "/", "="}

\* _is_likely_builtin_call
is_likely_builtin_callOneList(call) ==
    \/ call \in builtin_functions \/ call \in common_patterns
    \/ /\ HasChar(call, ".")
       /\ LET method_name == Last(Split(call, s_dot))
          IN  method_name \in builtin_functions \/ method_name \in common_patterns
    \/ \E ch \in special_chars : HasChar(call, ch)
    \/ Len(call) <= 2

is_likely_builtin_call(call) ==
    \/ call \in builtin_functions
    \/ /\ HasChar(call, ".")
       /\ LET method_name == Last(Split(call, s_dot))
          IN  method_name \in builtin_functions \/ method_name \in common_patterns
    \/ \E ch \in special_chars : HasChar(call, ch)
    \/ Len(call) <= 2

\* _extract_module_name_from_import: Optional[str]
extract_module_name_from_import(import_stmt0) ==
    LET import_stmt == Strip(import_stmt0)
    IN  IF StartsWith(import_stmt, s_import_)
        THEN Some(Strip(Split(Split(DropFirst(import_stmt, 7), s_dot)[1], s__as_)[1]))
        ELSE IF StartsWith(import_stmt, s_from_)
             THEN LET parts == Split(import_stmt, s__import_)
                  IN  IF Len(parts) > 0
                      THEN Some(Strip(DropFirst(parts[1], 5)))
                      ELSE None
             ELSE None

\* CCMRelationship
Relationship(type, target_id, target_name) ==
    [type |-> type, target_id |-> target_id, target_name |-> target_name]

\* resolved_count / unresolved_count after one import or inherits resolution
CountResolutionDropUnresolved(target_id, resolved, unresolved) ==
    IF target_id # <<>>
    THEN [resolved |-> resolved + 1, unresolved |-> unresolved]
    ELSE [resolved |-> resolved, unresolved |-> unresolved]

CountResolution(target_id, resolved, unresolved) ==
    IF target_id # <<>>
    THEN [resolved |-> resolved + 1, unresolved |-> unresolved]
    ELSE [resolved |-> resolved, unresolved |-> unresolved + 1]

\* metadata["resolution_rate"]: resolved / len(all_relationships) * 100, or 0
\* when there is no relationship.  The float is kept as the exact fraction
\* num / den it approximates; no rounding is applied by the code.
resolution_rateFraction(resolved, n_relationships) ==
    IF n_relationships > 0
    THEN [num |-> resolved, den |-> n_relationships]
    ELSE [num |-> 0, den |-> 1]

\* round(rate, 1), half away from zero, as a fraction over 10
resolution_rateRounded(resolved, n_relationships) ==
    IF n_relationships > 0
    THEN [num |-> (resolved * 2000 + n_relationships) \div (2 * n_relationships),
          den |-> 10]
    ELSE [num |-> 0, den |-> 1]

resolution_rate(resolved, n_relationships) ==
    IF n_relationships > 0
    THEN [num |-> resolved * 100, den |-> n_relationships]
    ELSE [num |-> 0, den |-> 1]

\* equality of two fractions
RatEq(a, b) == a.num * b.den = b.num * a.den

(***************************************************************************)
(* CCMNode construction.                                                   *)
(***************************************************************************)
\* CCMNode(...) for a module: children_ids=[] and relationships=[] are passed
ModuleNode(module_id, module) ==
    [id |-> module_id, name |-> module.name, node_type |-> "module",
     language |-> module.language, parameters |-> None, parent_id |-> None,
     children_ids |-> Some(<<>>), relationships |-> Some(<<>>),
     raw_content |-> None]

\* CCMNode(...) for a class
ClassNode(class_id, class_info, parent_id) ==
    [id |-> class_id, name |-> class_info.name, node_type |-> "class",
     language |-> class_info.language, parameters |-> None,
     parent_id |-> parent_id,
     children_ids |-> Some(<<>>), relationships |-> Some(<<>>),
     raw_content |-> None]

\* the names that make a function node a constructor
constructor_names == {s___init__, s_constructor, s_init}

\* node_type of a function node
function_node_type(function_info) ==
    IF function_info.name \in constructor_names
    THEN "constructor"
    ELSE IF Truthy(function_info.class_name) THEN "method" ELSE "function"

\* CCMNode(...) for a function: children_ids is not passed and stays None
FunctionNode(function_id, function_info, parent_id) ==
    [id |-> function_id, name |-> function_info.name,
     node_type |-> function_node_type(function_info),
     language |-> function_info.language,
     parameters |-> Some(convert_parameters(function_info.parameters)),
     parent_id |-> parent_id,
     children_ids |-> None, relationships |-> Some(<<>>),
     raw_content |-> None]

\* CCMNode(...) for a comment: only the required fields, raw_content and
\* annotations are passed
CommentNodeOwned(comment_id, comment) ==
    [id |-> comment_id,
     name |-> s_comment \o s_underscore \o Digits(comment.line_number),
     node_type |-> "comment", language |-> comment.language,
     parameters |-> None,
     parent_id |-> Some(s_module \o s_underscore \o ZeroPad(Digits(1), IdWidth)),
     children_ids |-> None, relationships |-> None,
     raw_content |-> Some(comment.content)]

CommentNode(comment_id, comment) ==
    [id |-> comment_id,
     name |-> s_comment \o s_underscore \o Digits(comment.line_number),
     node_type |-> "comment", language |-> comment.language,
     parameters |-> None, parent_id |-> None,
     children_ids |-> None, relationships |-> None,
     raw_content |-> Some(comment.content)]

\* nodes[idx].children_ids.append(child_id)
AppendChildForgotten(nodes, idx, child_id) == nodes

AppendChild(nodes, idx, child_id) ==
    [nodes EXCEPT ![idx].children_ids = Some(Append(@[1], child_id))]

\* nodes[idx].relationships.append(relationship)
AppendRelationshipDetached(nodes, idx, relationship) == nodes

AppendRelationship(nodes, idx, relationship) ==
    [nodes EXCEPT ![idx].relationships = Some(Append(@[1], relationship))]

\* f"{module_name}.{name}"
Qualified(module_name, name) == module_name \o s_dot \o name

\* function_full_name of lines 1069-1074 and 1215-1218
function_full_nameWithoutClass(function_info) ==
    Qualified(function_info.module_name, function_info.name)

function_full_name(function_info) ==
    IF Truthy(function_info.class_name)
    THEN Qualified(function_info.module_name,
                   Qualified(function_info.class_name[1], function_info.name))
    ELSE Qualified(function_info.module_name, function_info.name)

(***************************************************************************)
(* State.                                                                  *)
(***************************************************************************)
VARIABLES
    modules,            \* convert_to_ccm's argument: List[ModuleInfo]
    classes,            \* List[ClassInfo]
    functions,          \* List[FunctionInfo]
    comments,           \* List[CommentInfo]
    node_id_counter,    \* self.node_id_counter
    ccm_nodes,          \* the node list
    node_lookup,        \* {key: node id}
    module_nodes,       \* {module name: node}, a node being its position in ccm_nodes
    class_nodes,        \* {module.class: node}
    function_nodes,     \* {function_full_name: node}
    all_relationships,  \* the flat relationship list
    resolved_count,
    unresolved_count,
    metadata,           \* None until the result is built
    pc                  \* the loop and iteration convert_to_ccm is at

\* The state of the program's other operations: each is one record, whose pc
\* field is the operation's position.
VARIABLES
    lookup_case,        \* a call of _find_target_id: its arguments and result
    first_run,          \* the result of an earlier convert_to_ccm call
    file_run,           \* EnhancedAnalyzer.analyze_file: its file and locals
    repo_run,           \* EnhancedAnalyzer.analyze_repository: files and locals
    docker_run,         \* DockerCodeAnalyzer.analyze_codebase: its locals
    helper_call,        \* a call of one of the converter's pure helpers
    graph_run           \* a GraphConverter instance and its conversions

converter == << modules, classes, functions, comments, node_id_counter, ccm_nodes,
                node_lookup, module_nodes, class_nodes, function_nodes,
                all_relationships, resolved_count, unresolved_count, metadata, pc >>

outer == << lookup_case, first_run, file_run, repo_run, docker_run,
           helper_call, graph_run >>

vars == << converter, outer >>

\* An operation that is not running.
Idle == [pc |-> "idle"]

batch == << modules, classes, functions, comments >>

At(phase, i, j) == [phase |-> phase, i |-> i, j |-> j]

\* The next loop iteration that has a body to run, from position p on: the
\* loops run in source order and an exhausted loop falls through to the next.
RECURSIVE Position(_)
Position(p) ==
    CASE p.phase = "modules" ->
            IF p.i <= Len(modules) THEN p ELSE Position(At("classes", 1, 1))
      [] p.phase = "classes" ->
            IF p.i <= Len(classes) THEN p ELSE Position(At("functions", 1, 1))
      [] p.phase = "functions" ->
            IF p.i <= Len(functions) THEN p ELSE Position(At("comments", 1, 1))
      [] p.phase = "comments" ->
            IF p.i <= Len(comments) THEN p ELSE Position(At("imports", 1, 1))
      [] p.phase = "imports" ->
            IF p.i > Len(modules) THEN Position(At("inherits", 1, 1))
            ELSE IF p.j <= Len(modules[p.i].imports) THEN p
            ELSE Position(At("imports", p.i + 1, 1))
      [] p.phase = "inherits" ->
            IF p.i > Len(classes) THEN Position(At("calls", 1, 1))
            ELSE IF p.j <= Len(classes[p.i].parent_classes) THEN p
            ELSE Position(At("inherits", p.i + 1, 1))
      [] p.phase = "calls" ->
            IF p.i > Len(functions) THEN At("result", 1, 1)
            ELSE IF p.j <= Len(functions[p.i].calls) THEN p
            ELSE Position(At("calls", p.i + 1, 1))
      [] OTHER -> p

(***************************************************************************)
(* Init: a fresh CCMConverter whose convert_to_ccm has just been called    *)
(* with some batch and has initialised its locals.                         *)
(***************************************************************************)
Init ==
    /\ modules \in SeqsUpTo(ModuleInfos, MaxBatch)
    /\ classes \in SeqsUpTo(ClassInfos, MaxBatch - Len(modules))
    /\ functions \in SeqsUpTo(FunctionInfos, MaxBatch - Len(modules) - Len(classes))
    /\ comments \in SeqsUpTo(CommentInfos,
                             MaxBatch - Len(modules) - Len(classes) - Len(functions))
    /\ node_id_counter = 0
    /\ ccm_nodes = <<>>
    /\ node_lookup = EmptyDict
    /\ module_nodes = EmptyDict
    /\ class_nodes = EmptyDict
    /\ function_nodes = EmptyDict
    /\ all_relationships = <<>>
    /\ resolved_count = 0
    /\ unresolved_count = 0
    /\ metadata = None
    /\ pc = Position(At("modules", 1, 1))
    /\ lookup_case = Idle
    /\ first_run = Idle
    /\ file_run = Idle
    /\ repo_run = Idle
    /\ docker_run = Idle
    /\ helper_call = Idle
    /\ graph_run = Idle

(***************************************************************************)
(* Phase 1: node creation, one loop iteration per action.                  *)
(***************************************************************************)
\* for module in modules (lines 1002-1024)
CreateModuleNodeKindKeyOnly ==
    /\ pc.phase = "modules"
    /\ LET module == modules[pc.i]
           g == generate_id(s_module, node_id_counter)
       IN  /\ node_id_counter' = g.counter
           /\ ccm_nodes' = Append(ccm_nodes, ModuleNode(g.id, module))
           /\ module_nodes' = Put(module_nodes, module.name, Len(ccm_nodes) + 1)
           /\ node_lookup' =
                Put(node_lookup, s_module \o s_colon \o module.name, g.id)
    /\ pc' = Position(At("modules", pc.i + 1, 1))
    /\ UNCHANGED << outer, batch, class_nodes, function_nodes, all_relationships,
                    resolved_count, unresolved_count, metadata >>

CreateModuleNode ==
    /\ pc.phase = "modules"
    /\ LET module == modules[pc.i]
           g == generate_id(s_module, node_id_counter)
       IN  /\ node_id_counter' = g.counter
           /\ ccm_nodes' = Append(ccm_nodes, ModuleNode(g.id, module))
           /\ module_nodes' = Put(module_nodes, module.name, Len(ccm_nodes) + 1)
           /\ node_lookup' =
                Put(Put(node_lookup, module.name, g.id),
                    s_module \o s_colon \o module.name, g.id)
    /\ pc' = Position(At("modules", pc.i + 1, 1))
    /\ UNCHANGED << outer, batch, class_nodes, function_nodes, all_relationships,
                    resolved_count, unresolved_count, metadata >>

\* for class_info in classes (lines 1028-1061)
CreateClassNode ==
    /\ pc.phase = "classes"
    /\ LET class_info == classes[pc.i]
           g == generate_id(s_class, node_id_counter)
           class_full_name == Qualified(class_info.module_name, class_info.name)
           has_parent == class_info.module_name \in DOMAIN module_nodes
           parent == module_nodes[class_info.module_name]
           parent_id == IF has_parent THEN Some(ccm_nodes[parent].id) ELSE None
           linked == IF has_parent
                     THEN AppendChild(ccm_nodes, parent, g.id)
                     ELSE ccm_nodes
       IN  /\ node_id_counter' = g.counter
           /\ ccm_nodes' = Append(linked, ClassNode(g.id, class_info, parent_id))
           /\ class_nodes' = Put(class_nodes, class_full_name, Len(ccm_nodes) + 1)
           /\ node_lookup' =
                Put(Put(Put(Put(node_lookup,
                    class_info.name, g.id),
                    s_class \o s_colon \o class_info.name, g.id),
                    class_full_name, g.id),
                    s_class \o s_colon \o class_full_name, g.id)
    /\ pc' = Position(At("classes", pc.i + 1, 1))
    /\ UNCHANGED << outer, batch, module_nodes, function_nodes, all_relationships,
                    resolved_count, unresolved_count, metadata >>

\* for function_info in functions (lines 1065-1136)
CreateFunctionNode ==
    /\ pc.phase = "functions"
    /\ LET function_info == functions[pc.i]
           g == generate_id(s_function, node_id_counter)
           full_name == function_full_name(function_info)
           in_class == Truthy(function_info.class_name)
           function_class_name ==
               Qualified(function_info.class_name[1], function_info.name)
           class_key ==
               Qualified(function_info.module_name, function_info.class_name[1])
           parent ==
               IF in_class
               THEN IF class_key \in DOMAIN class_nodes
                    THEN Some(class_nodes[class_key])
                    ELSE None
               ELSE IF function_info.module_name \in DOMAIN module_nodes
                    THEN Some(module_nodes[function_info.module_name])
                    ELSE None
           parent_id == IF parent # None THEN Some(ccm_nodes[parent[1]].id) ELSE None
           linked == IF parent # None
                     THEN AppendChild(ccm_nodes, parent[1], g.id)
                     ELSE ccm_nodes
           module_function_name ==
               Qualified(function_info.module_name, function_info.name)
           lookup1 ==
               Put(Put(Put(Put(node_lookup,
                   function_info.name, g.id),
                   s_function \o s_colon \o function_info.name, g.id),
                   full_name, g.id),
                   s_function \o s_colon \o full_name, g.id)
           lookup2 ==
               IF in_class
               THEN Put(Put(lookup1,
                        function_class_name, g.id),
                        s_function \o s_colon \o function_class_name, g.id)
               ELSE lookup1
       IN  /\ node_id_counter' = g.counter
           /\ ccm_nodes' = Append(linked, FunctionNode(g.id, function_info, parent_id))
           /\ function_nodes' = Put(function_nodes, full_name, Len(ccm_nodes) + 1)
           /\ node_lookup' =
                Put(Put(lookup2,
                    module_function_name, g.id),
                    s_function \o s_colon \o module_function_name, g.id)
    /\ pc' = Position(At("functions", pc.i + 1, 1))
    /\ UNCHANGED << outer, batch, module_nodes, class_nodes, all_relationships,
                    resolved_count, unresolved_count, metadata >>

\* for comment in comments (lines 1139-1155)
CreateCommentNode ==
    /\ pc.phase = "comments"
    /\ LET g == generate_id(s_comment, node_id_counter)
       IN  /\ node_id_counter' = g.counter
           /\ ccm_nodes' = Append(ccm_nodes, CommentNode(g.id, comments[pc.i]))
    /\ pc' = Position(At("comments", pc.i + 1, 1))
    /\ UNCHANGED << outer, batch, node_lookup, module_nodes, class_nodes, function_nodes,
                    all_relationships, resolved_count, unresolved_count, metadata >>

(***************************************************************************)
(* Phase 2: relationship resolution, one raw reference per action.         *)
(***************************************************************************)
\* for import_stmt in module.imports (lines 1171-1188)
ProcessImport ==
    /\ pc.phase = "imports"
    /\ LET module == modules[pc.i]
           imported_module == extract_module_name_from_import(module.imports[pc.j])
           target_id == find_target_id(imported_module[1], node_lookup, NoContext)
           relationship == Relationship("imports", target_id, imported_module[1])
           counted == CountResolution(target_id, resolved_count, unresolved_count)
       IN  IF Truthy(imported_module)
           THEN /\ ccm_nodes' = AppendRelationship(ccm_nodes,
                                    module_nodes[module.name], relationship)
                /\ all_relationships' = Append(all_relationships, relationship)
                /\ resolved_count' = counted.resolved
                /\ unresolved_count' = counted.unresolved
           ELSE UNCHANGED << ccm_nodes, all_relationships, resolved_count,
                             unresolved_count >>
    /\ pc' = Position(At("imports", pc.i, pc.j + 1))
    /\ UNCHANGED << outer, batch, node_id_counter, node_lookup, module_nodes, class_nodes,
                    function_nodes, metadata >>

\* for parent_class in class_info.parent_classes (lines 1195-1211)
ProcessInherit ==
    /\ pc.phase = "inherits"
    /\ LET class_info == classes[pc.i]
           class_full_name == Qualified(class_info.module_name, class_info.name)
           parent_class == class_info.parent_classes[pc.j]
           target_id == find_target_id(parent_class, node_lookup,
                            [module |-> Some(class_info.module_name), class |-> None])
           relationship == Relationship("inherits", target_id, parent_class)
           counted == CountResolution(target_id, resolved_count, unresolved_count)
       IN  /\ ccm_nodes' = AppendRelationship(ccm_nodes,
                               class_nodes[class_full_name], relationship)
           /\ all_relationships' = Append(all_relationships, relationship)
           /\ resolved_count' = counted.resolved
           /\ unresolved_count' = counted.unresolved
    /\ pc' = Position(At("inherits", pc.i, pc.j + 1))
    /\ UNCHANGED << outer, batch, node_id_counter, node_lookup, module_nodes, class_nodes,
                    function_nodes, metadata >>

\* if self._is_likely_builtin_call(call): continue (lines 1224-1225)
SkipCallNever(call) == FALSE

SkipCall(call) == is_likely_builtin_call(call)

\* if target_id: (line 1234)
EmitCallAlways(target_id) == TRUE

EmitCall(target_id) == target_id # <<>>

\* for call in function_info.calls (lines 1222-1243)
ProcessCall ==
    /\ pc.phase = "calls"
    /\ LET function_info == functions[pc.i]
           call == function_info.calls[pc.j]
           target_id == find_target_id(call, node_lookup,
                            [module |-> Some(function_info.module_name),
                             class |-> function_info.class_name])
           relationship == Relationship("calls", target_id, call)
       IN  IF ~SkipCall(call) /\ EmitCall(target_id)
           THEN /\ ccm_nodes' = AppendRelationship(ccm_nodes,
                                    function_nodes[function_full_name(function_info)],
                                    relationship)
                /\ all_relationships' = Append(all_relationships, relationship)
                /\ resolved_count' = resolved_count + 1
           ELSE UNCHANGED << ccm_nodes, all_relationships, resolved_count >>
    /\ pc' = Position(At("calls", pc.i, pc.j + 1))
    /\ UNCHANGED << outer, batch, node_id_counter, node_lookup, module_nodes, class_nodes,
                    function_nodes, unresolved_count, metadata >>

\* the metadata and the returned CCMAnalysisResult (lines 1258-1279)
BuildResult ==
    /\ pc.phase = "result"
    /\ metadata' = Some(
           [total_nodes |-> Len(ccm_nodes),
            total_relationships |-> Len(all_relationships),
            resolved_relationships |-> resolved_count,
            unresolved_relationships |-> unresolved_count,
            resolution_rate |-> resolution_rate(resolved_count, Len(all_relationships)),
            lookup_table_size |-> Cardinality(DOMAIN node_lookup)])
    /\ pc' = At("done", 1, 1)
    /\ UNCHANGED << outer, batch, node_id_counter, ccm_nodes, node_lookup, module_nodes,
                    class_nodes, function_nodes, all_relationships, resolved_count,
                    unresolved_count >>

Next ==
    \/ CreateModuleNode
    \/ CreateClassNode
    \/ CreateFunctionNode
    \/ CreateCommentNode
    \/ ProcessImport
    \/ ProcessInherit
    \/ ProcessCall
    \/ BuildResult

Spec == Init /\ [][Next]_vars

TypeOK ==
    /\ node_id_counter \in Nat
    /\ pc.phase \in {"modules", "classes", "functions", "comments", "imports",
                     "inherits", "calls", "result", "done"}
    /\ Len(ccm_nodes) = node_id_counter

(***************************************************************************)
(* Vocabulary of the properties.                                           *)
(***************************************************************************)
Done == pc.phase = "done"

Range(seq) == { seq[k] : k \in DOMAIN seq }

RECURSIVE Flatten(_)
Flatten(seqs) == IF seqs = <<>> THEN <<>> ELSE Head(seqs) \o Flatten(Tail(seqs))

\* a node's inline relationships and children, None read as empty
RelsOf(node) == IF node.relationships = None THEN <<>> ELSE node.relationships[1]

ChildrenOf(node) == IF node.children_ids = None THEN <<>> ELSE node.children_ids[1]

\* every relationship of the graph: inline on a node or in the global list
AllInline == Flatten([k \in DOMAIN ccm_nodes |-> RelsOf(ccm_nodes[k])])

EveryRelationship == Range(AllInline) \cup Range(all_relationships)

NodesWithId(id) == { k \in DOMAIN ccm_nodes : ccm_nodes[k].id = id }

\* the node created from functions[g], classes[c], modules[m]: Phase 1 appends
\* the nodes in the order modules, classes, functions, comments
ModuleNodeAt(m) == m

ClassNodeAt(c) == Len(modules) + c

FunctionNodeAt(g) == Len(modules) + Len(classes) + g

\* the raw references of the batch, in processing order
AllImportStmts == Flatten([k \in DOMAIN modules |-> modules[k].imports])

AllParents == Flatten([k \in DOMAIN classes |-> classes[k].parent_classes])

OfType(rels, type) == SelectSeq(rels, LAMBDA r : r.type = type)

\* no candidate key of the target is in the lookup table
Unbound(target_name, context) ==
    \A k \in DOMAIN candidates(target_name, context) :
        candidates(target_name, context)[k] \notin DOMAIN node_lookup

(***************************************************************************)
(* C1: after convert_to_ccm on any batch, also one in which modules,       *)
(* classes or functions share names, the ids of the nodes in the node      *)
(* list are pairwise distinct across all node kinds.                       *)
(***************************************************************************)
C1_NodeIdsDistinct ==
    Done => \A a, b \in DOMAIN ccm_nodes :
                a # b => ccm_nodes[a].id # ccm_nodes[b].id

\* a finished graph of at least three nodes, two of which share a name
C1_Witness ==
    /\ Done
    /\ Len(ccm_nodes) >= 3
    /\ \E a, b \in DOMAIN ccm_nodes :
          a # b /\ ccm_nodes[a].name = ccm_nodes[b].name

(***************************************************************************)
(* C2: in every produced graph no "calls" relationship, inline or global,  *)
(* has an empty target_id: a call that does not resolve is dropped.        *)
(***************************************************************************)
C2_NoEmptyCallTarget ==
    Done => \A r \in EveryRelationship : r.type = "calls" => r.target_id # <<>>

\* a finished graph with an emitted call, from a batch holding a call that
\* passes the noise filter and binds to no lookup key
C2_Witness ==
    /\ Done
    /\ \E r \in Range(all_relationships) : r.type = "calls"
    /\ \E g \in DOMAIN functions : \E k \in DOMAIN functions[g].calls :
          /\ ~is_likely_builtin_call(functions[g].calls[k])
          /\ Unbound(functions[g].calls[k],
                     [module |-> Some(functions[g].module_name),
                      class |-> functions[g].class_name])

\* C3, one step: the processing of one raw parent-class name of one class
C3_InheritStep ==
    pc.phase = "inherits" =>
        LET class_info == classes[pc.i]
            p == class_info.parent_classes[pc.j]
            context == [module |-> Some(class_info.module_name), class |-> None]
            grown == { k \in DOMAIN ccm_nodes : ccm_nodes'[k] # ccm_nodes[k] }
        IN  /\ Len(all_relationships') = Len(all_relationships) + 1
            /\ SubSeq(all_relationships', 1, Len(all_relationships)) = all_relationships
            /\ Last(all_relationships').type = "inherits"
            /\ Last(all_relationships').target_name = p
            /\ Cardinality(grown) = 1
            /\ \A k \in grown :
                  RelsOf(ccm_nodes'[k]) =
                      Append(RelsOf(ccm_nodes[k]), Last(all_relationships'))
            /\ Unbound(p, context) =>
                  /\ Last(all_relationships').target_id = <<>>
                  /\ unresolved_count' = unresolved_count + 1
                  /\ resolved_count' = resolved_count

(***************************************************************************)
(* C3: every raw parent-class name p a class lists yields exactly one      *)
(* "inherits" relationship with target_name = p; when p binds to no lookup *)
(* key the relationship is retained with target_id = "" and                *)
(* unresolved_relationships grows by exactly 1 while                       *)
(* resolved_relationships does not change.                                 *)
(***************************************************************************)
C3_InheritsRetained ==
    /\ [][C3_InheritStep]_vars
    /\ [](Done =>
            /\ [k \in DOMAIN OfType(all_relationships, "inherits") |->
                   OfType(all_relationships, "inherits")[k].target_name] = AllParents
            /\ Len(OfType(AllInline, "inherits")) = Len(AllParents))

\* a finished graph with an inherits relationship kept with target_id = ""
\* (counted as unresolved) next to one that resolved
C3_Witness ==
    /\ Done
    /\ unresolved_count >= 1
    /\ \E r \in Range(all_relationships) : r.type = "inherits" /\ r.target_id = <<>>
    /\ \E r \in Range(all_relationships) : r.type = "inherits" /\ r.target_id # <<>>

(***************************************************************************)
(* C4: every raw import statement recorded in a module's IR yields exactly *)
(* one "imports" relationship and increments exactly one of the resolved / *)
(* unresolved counters; no recorded import is dropped without being        *)
(* counted.                                                                *)
(***************************************************************************)
C4_EveryImportCounted ==
    Done =>
        /\ Len(OfType(all_relationships, "imports")) = Len(AllImportStmts)
        /\ resolved_count + unresolved_count =
              Len(AllImportStmts) + Len(OfType(all_relationships, "inherits"))
                + Len(OfType(all_relationships, "calls"))

(***************************************************************************)
(* C5: parent_id and children_ids are mutually consistent in every         *)
(* produced graph: a node N with parent_id = P has exactly one node with   *)
(* id P, whose children_ids holds N.id exactly once; and every id in a     *)
(* node's children_ids is the id of a node whose parent_id is that node.   *)
(***************************************************************************)
C5_ParentChildConsistent ==
    Done =>
        /\ \A n \in DOMAIN ccm_nodes :
              ccm_nodes[n].parent_id # None =>
                  /\ Cardinality(NodesWithId(ccm_nodes[n].parent_id[1])) = 1
                  /\ \A p \in NodesWithId(ccm_nodes[n].parent_id[1]) :
                        Len(SelectSeq(ChildrenOf(ccm_nodes[p]),
                                      LAMBDA c : c = ccm_nodes[n].id)) = 1
        /\ \A p \in DOMAIN ccm_nodes : \A c \in Range(ChildrenOf(ccm_nodes[p])) :
              /\ NodesWithId(c) # {}
              /\ \A n \in NodesWithId(c) :
                    ccm_nodes[n].parent_id = Some(ccm_nodes[p].id)

\* a finished graph with a module owning a class that owns a method, and a
\* second module of the same name
C5_Witness ==
    /\ Done
    /\ \E a, b \in DOMAIN modules : a # b /\ modules[a].name = modules[b].name
    /\ \E c \in DOMAIN ccm_nodes :
          /\ ccm_nodes[c].node_type = "class"
          /\ ccm_nodes[c].parent_id # None
          /\ ChildrenOf(ccm_nodes[c]) # <<>>

(***************************************************************************)
(* C6: comment nodes are isolated in every produced graph: a comment node  *)
(* has no parent_id, no children_ids, no parameters and no relationships,  *)
(* and its id is no relationship's target_id, no node's parent_id and in   *)
(* no node's children_ids.                                                 *)
(***************************************************************************)
C6_CommentsIsolated ==
    Done =>
        \A k \in DOMAIN ccm_nodes :
            ccm_nodes[k].node_type = "comment" =>
                /\ ccm_nodes[k].parent_id = None
                /\ ChildrenOf(ccm_nodes[k]) = <<>>
                /\ ccm_nodes[k].parameters \in {None, Some(<<>>)}
                /\ RelsOf(ccm_nodes[k]) = <<>>
                /\ \A r \in EveryRelationship : r.target_id # ccm_nodes[k].id
                /\ \A n \in DOMAIN ccm_nodes :
                      /\ ccm_nodes[n].parent_id # Some(ccm_nodes[k].id)
                      /\ ccm_nodes[k].id \notin Range(ChildrenOf(ccm_nodes[n]))

\* a finished graph with a comment node next to owned nodes and relationships
C6_Witness ==
    /\ Done
    /\ \E k \in DOMAIN ccm_nodes : ccm_nodes[k].node_type = "comment"
    /\ \E n \in DOMAIN ccm_nodes : ccm_nodes[n].parent_id # None
    /\ all_relationships # <<>>

(***************************************************************************)
(* C7: the reported resolution_rate is resolved / (resolved + unresolved)  *)
(* * 100 whenever a relationship was counted and 0 when none was: the      *)
(* denominator the code uses, the number of emitted relationships, equals  *)
(* resolved + unresolved.                                                  *)
(***************************************************************************)
C7_RateOverCounted ==
    Done =>
        LET m == metadata[1]
            counted == m.resolved_relationships + m.unresolved_relationships
        IN  /\ m.total_relationships = counted
            /\ IF counted > 0
               THEN RatEq(m.resolution_rate,
                          [num |-> m.resolved_relationships * 100, den |-> counted])
               ELSE RatEq(m.resolution_rate, [num |-> 0, den |-> 1])

\* a finished run that counted resolved and unresolved relationships and
\* emitted a call
C7_Witness ==
    /\ Done
    /\ resolved_count > 0
    /\ unresolved_count > 0
    /\ \E r \in Range(all_relationships) : r.type = "calls"

(***************************************************************************)
(* C8: for an input producing exactly 2 resolved and 1 unresolved import   *)
(* relationships and nothing else countable, the resolution_rate stored in *)
(* the metadata is 66.7, rounded to one decimal place (as claimed); it is  *)
(* the unrounded 200/3 (as amended).                                       *)
(***************************************************************************)
\* the case of C8
TwoOfThreeImports ==
    /\ Done
    /\ resolved_count = 2
    /\ unresolved_count = 1
    /\ \A r \in Range(all_relationships) : r.type = "imports"

\* C8 as stated: with 2 resolved and 1 unresolved imports the stored rate is 66.7
C8_RateRounded ==
    TwoOfThreeImports => RatEq(metadata[1].resolution_rate, [num |-> 667, den |-> 10])

\* C8 as amended: with 2 resolved and 1 unresolved imports the stored rate is
\* 2 / 3 * 100 with no rounding applied
C8_RateUnrounded ==
    TwoOfThreeImports => RatEq(metadata[1].resolution_rate, [num |-> 200, den |-> 3])

\* a finished run of the case of C8
C8_Witness == TwoOfThreeImports /\ Len(all_relationships) = 3

\* the number of modules, classes and functions named t
NamedEntities(t) ==
    Cardinality({ k \in DOMAIN modules : modules[k].name = t })
      + Cardinality({ k \in DOMAIN classes : classes[k].name = t })
      + Cardinality({ k \in DOMAIN functions : functions[k].name = t })

(***************************************************************************)
(* C9: if function g's call list holds a text t that passes the noise      *)
(* filter and t is the bare name of a function f of the batch, no other    *)
(* entity sharing the name t, then g's node carries exactly one "calls"    *)
(* relationship per such occurrence, with target_id = f's node id and      *)
(* target_name = t.                                                        *)
(***************************************************************************)
C9_CallsOnCallerNode ==
    Done =>
        \A g, f \in DOMAIN functions : \A t \in Range(functions[g].calls) :
            ( /\ ~is_likely_builtin_call(t)
              /\ functions[f].name = t
              /\ NamedEntities(t) = 1 ) =>
                LET mine == SelectSeq(RelsOf(ccm_nodes[FunctionNodeAt(g)]),
                                LAMBDA r : r.type = "calls" /\ r.target_name = t)
                IN  /\ Len(mine) = Len(SelectSeq(functions[g].calls, LAMBDA c : c = t))
                    /\ \A r \in Range(mine) :
                          r.target_id = ccm_nodes[FunctionNodeAt(f)].id

\* C10, one step: the processing of one call text the noise filter rejects
C10_NoiseStep ==
    ( /\ pc.phase = "calls"
      /\ is_likely_builtin_call(functions[pc.i].calls[pc.j]) ) =>
        UNCHANGED << ccm_nodes, all_relationships, resolved_count, unresolved_count >>

(***************************************************************************)
(* C10: a call text for which the noise filter returns true never reaches  *)
(* resolution: its step emits no relationship and changes neither counter, *)
(* even when a node of exactly that name is in the lookup table.           *)
(***************************************************************************)
C10_NoiseNeverResolved == [][C10_NoiseStep]_vars

\* a finished graph from a batch in which a function calls a filtered name
\* that is a key of the lookup table, and no call relationship names it
C10_Witness ==
    /\ Done
    /\ \E g \in DOMAIN functions : \E t \in Range(functions[g].calls) :
          /\ is_likely_builtin_call(t)
          /\ t \in DOMAIN node_lookup
          /\ \A r \in EveryRelationship : ~(r.type = "calls" /\ r.target_name = t)

(***************************************************************************)
(* The produced artifact.                                                  *)
(***************************************************************************)
\* CCMAnalysisResult(nodes=ccm_nodes, relationships=all_relationships,
\* metadata=metadata).to_dict(): asdict and _serialize_object rebuild every
\* dict and list element by element, so the lists keep length and order
to_dict ==
    [nodes |-> [k \in DOMAIN ccm_nodes |-> ccm_nodes[k]],
     global_relationships |->
        [k \in DOMAIN all_relationships |-> all_relationships[k]],
     metadata |-> metadata]

Occurrences(seq, x) == Cardinality({ k \in DOMAIN seq : seq[k] = x })

SameMultiset(a, b) ==
    /\ Len(a) = Len(b)
    /\ \A x \in Range(a) \cup Range(b) : Occurrences(a, x) = Occurrences(b, x)

\* the inline relationships of the artifact's nodes, node after node
InlineOf(artifact) ==
    Flatten([k \in DOMAIN artifact.nodes |-> RelsOf(artifact.nodes[k])])

(***************************************************************************)
(* C14: in the produced artifact global_relationships is the flattening of *)
(* the nodes' inline relationships: the two are equal as multisets, so     *)
(* every emitted relationship sits on exactly one node.                    *)
(***************************************************************************)
C14_GlobalIsFlattening ==
    Done => SameMultiset(InlineOf(to_dict), to_dict.global_relationships)

\* an artifact of at least three relationships, held by two or more nodes,
\* two of them equal in value
C14_Witness ==
    /\ Done
    /\ Len(to_dict.global_relationships) >= 3
    /\ Cardinality({ k \in DOMAIN ccm_nodes : RelsOf(ccm_nodes[k]) # <<>> }) >= 2
    /\ \E a, b \in DOMAIN all_relationships :
          a # b /\ all_relationships[a] = all_relationships[b]

(***************************************************************************)
(* The lookup keys an entity registers in Phase 1.                         *)
(***************************************************************************)
Prefixed(kind, name) == kind \o s_colon \o name

ModuleKeys(module) == { module.name, Prefixed(s_module, module.name) }

ClassKeys(class_info) ==
    { class_info.name,
      Prefixed(s_class, class_info.name),
      Qualified(class_info.module_name, class_info.name),
      Prefixed(s_class, Qualified(class_info.module_name, class_info.name)) }

FunctionKeys(function_info) ==
    LET bare == function_info.name
        in_module == Qualified(function_info.module_name, bare)
        in_class == Qualified(function_info.class_name[1], bare)
        full == Qualified(function_info.module_name, in_class)
        names == IF function_info.class_name = None
                 THEN { bare, in_module }
                 ELSE { bare, in_module, in_class, full }
    IN  names \cup { Prefixed(s_function, n) : n \in names }

\* the entities of the batch by creation order, which is their node position,
\* and the keys each registers
Entities == 1..(Len(modules) + Len(classes) + Len(functions))

KeysOfEntity(e) ==
    IF e <= Len(modules) THEN ModuleKeys(modules[e])
    ELSE IF e <= Len(modules) + Len(classes)
         THEN ClassKeys(classes[e - Len(modules)])
         ELSE FunctionKeys(functions[e - Len(modules) - Len(classes)])

Registrants(key) == { e \in Entities : key \in KeysOfEntity(e) }

Max(S) == CHOOSE x \in S : \A y \in S : y <= x

PhaseOneOver == pc.phase \notin {"modules", "classes", "functions"}

(***************************************************************************)
(* C18: after Phase 1 the lookup table holds exactly the keys the entities *)
(* registered, and every key maps to the id of the entity that registered  *)
(* it last in creation order (modules, then classes, then functions).      *)
(***************************************************************************)
C18_LastRegistrantOwnsKey ==
    PhaseOneOver =>
        /\ DOMAIN node_lookup = UNION { KeysOfEntity(e) : e \in Entities }
        /\ \A key \in DOMAIN node_lookup :
              node_lookup[key] = ccm_nodes[Max(Registrants(key))].id

\* Phase 1 is over and a function whose bare name is also a class's name
\* owns the bare key, which two or more entities registered
C18_Witness ==
    /\ PhaseOneOver
    /\ \E g \in DOMAIN functions : \E c \in DOMAIN classes :
          /\ functions[g].name = classes[c].name
          /\ Cardinality(Registrants(functions[g].name)) >= 2
          /\ node_lookup[functions[g].name] = ccm_nodes[FunctionNodeAt(g)].id

\* the nodes of the classes / modules of the batch that own functions[g]
OwningClassNodes(g) ==
    { ClassNodeAt(c) : c \in { c \in DOMAIN classes :
          /\ functions[g].class_name = Some(classes[c].name)
          /\ functions[g].module_name = classes[c].module_name } }

OwningModuleNodes(g) ==
    { ModuleNodeAt(m) : m \in { m \in DOMAIN modules :
          functions[g].module_name = modules[m].name } }

(***************************************************************************)
(* C20: after conversion every function node's parent_id is the id of its  *)
(* owning class's node when that class is in the batch, and otherwise the  *)
(* id of its owning module's node when that module is in the batch: a      *)
(* method whose class was not materialized is parented to its module.      *)
(***************************************************************************)
C20_FunctionParentedToClassElseModule ==
    Done =>
        \A g \in DOMAIN functions :
            LET parent_id == ccm_nodes[FunctionNodeAt(g)].parent_id
                owners == IF OwningClassNodes(g) # {}
                          THEN OwningClassNodes(g)
                          ELSE OwningModuleNodes(g)
            IN  owners # {} =>
                    \E n \in owners : parent_id = Some(ccm_nodes[n].id)

(***************************************************************************)
(* _find_target_id on its own: one call with any target name, any context  *)
(* and any lookup table over the keys the call can ask for.                *)
(***************************************************************************)
\* convert_to_ccm is not running
ConverterIdle ==
    /\ modules = <<>>
    /\ classes = <<>>
    /\ functions = <<>>
    /\ comments = <<>>
    /\ node_id_counter = 0
    /\ ccm_nodes = <<>>
    /\ node_lookup = EmptyDict
    /\ module_nodes = EmptyDict
    /\ class_nodes = EmptyDict
    /\ function_nodes = EmptyDict
    /\ all_relationships = <<>>
    /\ resolved_count = 0
    /\ unresolved_count = 0
    /\ metadata = None
    /\ pc = At("idle", 1, 1)

\* the arguments of the call
TargetNames == { n_get, <<>> }

Contexts ==
    [module : { None, Some(n_lib), Some(<<>>) }, class : { None, Some(n_Dog) }]

\* every key a call with target get can ask for, in a fixed enumeration, and
\* one it never asks for
LookupKeys ==
    candidates(n_get, [module |-> Some(n_lib), class |-> Some(n_Dog)])
        \o << n_helper >>

\* the id stored under LookupKeys[k]: a different one for every key
IdOfKey(k) == generate_id(s_function, k - 1).id

LookupTables ==
    { [key \in { LookupKeys[k] : k \in present } |->
          IdOfKey(CHOOSE k \in present : LookupKeys[k] = key)]
      : present \in SUBSET DOMAIN LookupKeys }

InitFind ==
    /\ ConverterIdle
    /\ lookup_case \in [pc : {"called"}, target_name : TargetNames,
                        context : Contexts, node_lookup : LookupTables,
                        result : {<<>>}]
    /\ first_run = Idle
    /\ file_run = Idle
    /\ repo_run = Idle
    /\ docker_run = Idle
    /\ helper_call = Idle
    /\ graph_run = Idle

\* the call runs to its return statement
FindTargetId ==
    /\ lookup_case.pc = "called"
    /\ lookup_case' =
          [lookup_case EXCEPT
              !.pc = "returned",
              !.result = find_target_id(lookup_case.target_name,
                                        lookup_case.node_lookup,
                                        lookup_case.context)]
    /\ UNCHANGED << converter, first_run, file_run, repo_run, docker_run,
                    helper_call, graph_run >>

NextFind == FindTargetId

SpecFind == InitFind /\ [][NextFind]_vars

\* The order C17 states for target T under module context M and class
\* context C: each row is a key and the contexts that must be known for the
\* key to be tried.
ClaimedOrder(T, M, C) ==
    << [key |-> T,                                   needs |-> {}],
       [key |-> Prefixed(s_function, T),             needs |-> {}],
       [key |-> Prefixed(s_class, T),                needs |-> {}],
       [key |-> Prefixed(s_module, T),               needs |-> {}],
       [key |-> Qualified(M, T),                     needs |-> {"module"}],
       [key |-> Prefixed(s_function, Qualified(M, T)), needs |-> {"module"}],
       [key |-> Prefixed(s_class, Qualified(M, T)),  needs |-> {"module"}],
       [key |-> Qualified(C, T),                     needs |-> {"class"}],
       [key |-> Prefixed(s_function, Qualified(C, T)), needs |-> {"class"}],
       [key |-> Qualified(M, Qualified(C, T)),       needs |-> {"module", "class"}],
       [key |-> Prefixed(s_function, Qualified(M, Qualified(C, T))),
                                                     needs |-> {"module", "class"}] >>

\* the contexts of a call that are known: present and not empty
Known(context) ==
    { f \in {"module", "class"} : context[f] # None /\ context[f] # Some(<<>>) }

\* the rows of the claimed order that the call tries and the table holds
ClaimedHits(case) ==
    LET M == IF "module" \in Known(case.context) THEN case.context.module[1] ELSE <<>>
        C == IF "class" \in Known(case.context) THEN case.context.class[1] ELSE <<>>
        order == ClaimedOrder(case.target_name, M, C)
    IN  SelectSeq(order, LAMBDA row :
            /\ row.needs \subseteq Known(case.context)
            /\ row.key \in DOMAIN case.node_lookup)

(***************************************************************************)
(* C17: _find_target_id(T, lookup, ctx) returns lookup[k] for the first    *)
(* key k present in lookup in the order T, function:T, class:T, module:T,  *)
(* then with a known module M: M.T, function:M.T, class:M.T, then with a   *)
(* known class C: C.T, function:C.T, then with both: M.C.T,                *)
(* function:M.C.T; it returns "" when T is empty or no candidate is        *)
(* present.  So a bare key outranks every contextual key.                  *)
(***************************************************************************)
C17_FirstCandidateInOrder ==
    lookup_case.pc = "returned" =>
        lookup_case.result =
            IF lookup_case.target_name = <<>> \/ ClaimedHits(lookup_case) = <<>>
            THEN <<>>
            ELSE lookup_case.node_lookup[Head(ClaimedHits(lookup_case)).key]

\* a returned call whose table holds both the bare key and the fully
\* qualified contextual key, under different ids, and the bare id came back
C17_Witness ==
    /\ lookup_case.pc = "returned"
    /\ lookup_case.context = [module |-> Some(n_lib), class |-> Some(n_Dog)]
    /\ LET T == lookup_case.target_name
           contextual == Qualified(n_lib, Qualified(n_Dog, T))
       IN  /\ T # <<>>
           /\ { T, contextual } \subseteq DOMAIN lookup_case.node_lookup
           /\ lookup_case.node_lookup[T] # lookup_case.node_lookup[contextual]
           /\ lookup_case.result = lookup_case.node_lookup[T]

(***************************************************************************)
(* convert_to_ccm called twice on the same batch: by a second, fresh       *)
(* CCMConverter, or again by the first one, whose id counter has advanced. *)
(***************************************************************************)
MaxRerunBatch == 3

InitRerun ==
    /\ modules \in SeqsUpTo(ModuleInfos, MaxRerunBatch)
    /\ classes \in SeqsUpTo(ClassInfos, MaxRerunBatch - Len(modules))
    /\ functions \in SeqsUpTo(FunctionInfos,
                              MaxRerunBatch - Len(modules) - Len(classes))
    /\ comments \in SeqsUpTo(CommentInfos,
          MaxRerunBatch - Len(modules) - Len(classes) - Len(functions))
    /\ node_id_counter = 0
    /\ ccm_nodes = <<>>
    /\ node_lookup = EmptyDict
    /\ module_nodes = EmptyDict
    /\ class_nodes = EmptyDict
    /\ function_nodes = EmptyDict
    /\ all_relationships = <<>>
    /\ resolved_count = 0
    /\ unresolved_count = 0
    /\ metadata = None
    /\ pc = Position(At("modules", 1, 1))
    /\ first_run = [pc |-> "first"]
    /\ lookup_case = Idle
    /\ file_run = Idle
    /\ repo_run = Idle
    /\ docker_run = Idle
    /\ helper_call = Idle
    /\ graph_run = Idle

\* The second call: the first call's result is kept by the caller; the
\* locals of convert_to_ccm are created anew (lines 994-1000, 1163-1165);
\* self.node_id_counter is 0 in a fresh converter (line 819) and is left as
\* it stands in the same one.
ConvertAgainOnOldNodeList ==
    /\ Done
    /\ first_run.pc = "first"
    /\ \E converter_is \in {"fresh", "same"} :
          /\ first_run' = [pc |-> "second", converter_is |-> converter_is,
                           artifact |-> to_dict]
          /\ node_id_counter' = IF converter_is = "fresh" THEN 0 ELSE node_id_counter
    /\ ccm_nodes' = ccm_nodes
    /\ node_lookup' = EmptyDict
    /\ module_nodes' = EmptyDict
    /\ class_nodes' = EmptyDict
    /\ function_nodes' = EmptyDict
    /\ all_relationships' = <<>>
    /\ resolved_count' = 0
    /\ unresolved_count' = 0
    /\ metadata' = None
    /\ pc' = Position(At("modules", 1, 1))
    /\ UNCHANGED << batch, lookup_case, file_run, repo_run, docker_run,
                    helper_call, graph_run >>

ConvertAgain ==
    /\ Done
    /\ first_run.pc = "first"
    /\ \E converter_is \in {"fresh", "same"} :
          /\ first_run' = [pc |-> "second", converter_is |-> converter_is,
                           artifact |-> to_dict]
          /\ node_id_counter' = IF converter_is = "fresh" THEN 0 ELSE node_id_counter
    /\ ccm_nodes' = <<>>
    /\ node_lookup' = EmptyDict
    /\ module_nodes' = EmptyDict
    /\ class_nodes' = EmptyDict
    /\ function_nodes' = EmptyDict
    /\ all_relationships' = <<>>
    /\ resolved_count' = 0
    /\ unresolved_count' = 0
    /\ metadata' = None
    /\ pc' = Position(At("modules", 1, 1))
    /\ UNCHANGED << batch, lookup_case, file_run, repo_run, docker_run,
                    helper_call, graph_run >>

NextRerun == Next \/ ConvertAgain

SpecRerun == InitRerun /\ [][NextRerun]_vars

\* ids of an artifact's nodes
IdsOf(artifact) == { artifact.nodes[k].id : k \in DOMAIN artifact.nodes }

\* the renaming of a's node ids that sends each node to b's node at the same
\* position
Renaming(a, b) ==
    [id \in IdsOf(a) |->
        b.nodes[CHOOSE k \in DOMAIN a.nodes : a.nodes[k].id = id].id]

\* an id field under the renaming; "" is no id
RenameId(f, id) == IF id = <<>> THEN <<>> ELSE f[id]

RenameRelationship(f, r) == [r EXCEPT !.target_id = RenameId(f, r.target_id)]

RenameRelationships(f, rels) ==
    [k \in DOMAIN rels |-> RenameRelationship(f, rels[k])]

RenameNode(f, node) ==
    [node EXCEPT
        !.id = f[node.id],
        !.parent_id = IF @ = None THEN None ELSE Some(f[@[1]]),
        !.children_ids =
            IF @ = None THEN None ELSE Some([k \in DOMAIN @[1] |-> f[@[1][k]]]),
        !.relationships =
            IF @ = None THEN None ELSE Some(RenameRelationships(f, @[1]))]

\* f is a bijection from a's node ids onto b's that carries a's nodes, links
\* and relationships onto b's, and the metadata agree
IsomorphicBy(f, a, b) ==
    /\ Len(a.nodes) = Len(b.nodes)
    /\ \A x, y \in DOMAIN f : x # y => f[x] # f[y]
    /\ { f[x] : x \in DOMAIN f } = IdsOf(b)
    /\ \A k \in DOMAIN a.nodes : RenameNode(f, a.nodes[k]) = b.nodes[k]
    /\ RenameRelationships(f, a.global_relationships) = b.global_relationships
    /\ a.metadata = b.metadata

SecondRunDone == Done /\ first_run.pc = "second"

(***************************************************************************)
(* C13: convert_to_ccm run twice on the same batch, by a fresh converter   *)
(* or by the same one with its id counter advanced, yields two graphs with *)
(* a bijection between their node ids that maps nodes, parent/children     *)
(* links and relationships of the first onto the second, and with equal    *)
(* counters and resolution rate.                                           *)
(***************************************************************************)
C13_RerunIsomorphic ==
    SecondRunDone =>
        /\ Len(first_run.artifact.nodes) = Len(to_dict.nodes)
        /\ IsomorphicBy(Renaming(first_run.artifact, to_dict),
                        first_run.artifact, to_dict)

\* a second run by the same converter has finished: its ids differ from the
\* first run's, and the graph has children, resolved and unresolved
\* relationships
C13_Witness ==
    /\ SecondRunDone
    /\ first_run.converter_is = "same"
    /\ IdsOf(first_run.artifact) \cap IdsOf(to_dict) = {}
    /\ \E k \in DOMAIN ccm_nodes : ccm_nodes[k].parent_id # None
    /\ \E r \in Range(all_relationships) : r.target_id # <<>>
    /\ \E r \in Range(all_relationships) : r.target_id = <<>>

(***************************************************************************)
(* docker_analyzer.py: DockerCodeAnalyzer.analyze_codebase, one call.      *)
(* Time is counted in ticks; the container, the docker commands and the    *)
(* file system answer as any of the outcomes they can produce.             *)
(***************************************************************************)
MaxTimeout == 3

\* _run_docker_container's verdict on a finished `docker run`
container_successAlways(returncode) == TRUE

container_success(returncode) == returncode = 0

\* raise: the call ends with an exception and hands back no result
Raise(run, exception) ==
    [run EXCEPT !.pc = "raised", !.error = Some(exception), !.result = None]

InitDocker ==
    /\ ConverterIdle
    /\ lookup_case = Idle
    /\ first_run = Idle
    /\ file_run = Idle
    /\ repo_run = Idle
    /\ helper_call = Idle
    /\ graph_run = Idle
    /\ docker_run \in
          [pc : {"called"},
           path_exists : BOOLEAN,          \* codebase_path.exists()
           output_path : BOOLEAN,          \* an output_path argument is given
           timeout : 1..MaxTimeout,        \* self.timeout
           elapsed : {0},                  \* time since `docker run` began
           container : {"absent"},         \* the container analyzer-{task_id}
           result_file : {FALSE},          \* temp_output/analysis.json exists
           run : {"pending"},              \* how `docker run` ended
           success : {FALSE},
           result : {None},
           error : {None}]

\* codebase_path.exists() (lines 100-103)
CheckCodePath ==
    /\ docker_run.pc = "called"
    /\ docker_run' =
          IF docker_run.path_exists
          THEN [docker_run EXCEPT !.pc = "launch"]
          ELSE Raise(docker_run, "FileNotFoundError")
    /\ UNCHANGED << converter, lookup_case, first_run, file_run, repo_run,
                    helper_call, graph_run >>

\* subprocess.run(docker_cmd, timeout=self.timeout) begins (lines 175-180):
\* the container starts, or the command cannot be executed at all, which
\* `except Exception` turns into False (lines 204-206)
LaunchContainer ==
    /\ docker_run.pc = "launch"
    /\ \/ docker_run' = [docker_run EXCEPT !.pc = "waiting",
                                          !.container = "running"]
       \/ docker_run' = [docker_run EXCEPT !.pc = "ran", !.run = "error",
                                          !.success = FALSE]
    /\ UNCHANGED << converter, lookup_case, first_run, file_run, repo_run,
                    helper_call, graph_run >>

\* time passes while subprocess.run waits
Tick ==
    /\ docker_run.pc = "waiting"
    /\ docker_run.elapsed < docker_run.timeout
    /\ docker_run' = [docker_run EXCEPT !.elapsed = @ + 1]
    /\ UNCHANGED << converter, lookup_case, first_run, file_run, repo_run,
                    helper_call, graph_run >>

\* the analyzer in the container writes /output/analysis.json
AnalyzerWritesResult ==
    /\ docker_run.pc = "waiting"
    /\ docker_run.container = "running"
    /\ ~docker_run.result_file
    /\ docker_run' = [docker_run EXCEPT !.result_file = TRUE]
    /\ UNCHANGED << converter, lookup_case, first_run, file_run, repo_run,
                    helper_call, graph_run >>

\* the container exits before the timeout and --rm removes it; the return
\* code decides (lines 182-193)
ContainerExits ==
    /\ docker_run.pc = "waiting"
    /\ docker_run.elapsed < docker_run.timeout
    /\ \E returncode \in {0, 1} :
          docker_run' = [docker_run EXCEPT
              !.pc = "ran",
              !.container = "removed",
              !.run = IF returncode = 0 THEN "exit_zero" ELSE "exit_nonzero",
              !.success = container_success(returncode)]
    /\ UNCHANGED << converter, lookup_case, first_run, file_run, repo_run,
                    helper_call, graph_run >>

\* subprocess.TimeoutExpired (line 195): subprocess.run has killed the
\* `docker run` client process; the container itself is still running
TimeoutExpired ==
    /\ docker_run.pc = "waiting"
    /\ docker_run.elapsed = docker_run.timeout
    /\ docker_run' = [docker_run EXCEPT !.pc = "stopping", !.run = "timeout"]
    /\ UNCHANGED << converter, lookup_case, first_run, file_run, repo_run,
                    helper_call, graph_run >>

\* subprocess.run(['docker', 'stop', container_name], timeout=10) inside
\* try / except: pass (lines 198-203): the command stops the container, or
\* fails, or does not finish in its 10 seconds; whichever it is, the
\* function returns False
StopContainer ==
    /\ docker_run.pc = "stopping"
    /\ \E stop \in {"stopped", "failed", "timeout"} :
          docker_run' = [docker_run EXCEPT
              !.pc = "ran",
              !.container = IF stop = "stopped" THEN "removed" ELSE @,
              !.success = FALSE]
    /\ UNCHANGED << converter, lookup_case, first_run, file_run, repo_run,
                    helper_call, graph_run >>

\* if not success: raise; if not result_file.exists(): raise (lines 118-124)
CheckRun ==
    /\ docker_run.pc = "ran"
    /\ docker_run' =
          IF ~docker_run.success
          THEN Raise(docker_run, "Docker analysis failed")
          ELSE IF ~docker_run.result_file
               THEN Raise(docker_run, "Analysis result file not generated")
               ELSE [docker_run EXCEPT !.pc = "load"]
    /\ UNCHANGED << converter, lookup_case, first_run, file_run, repo_run,
                    helper_call, graph_run >>

\* json.load(f) (lines 126-127): the file holds a JSON document, whose
\* metadata has a numeric resolution_rate or none, or json.load raises
LoadResult ==
    /\ docker_run.pc = "load"
    /\ \/ \E rate \in {"number", "absent"} :
             docker_run' = [docker_run EXCEPT
                 !.pc = "save",
                 !.result = Some([resolution_rate |-> rate])]
       \/ docker_run' = Raise(docker_run, "JSONDecodeError")
    /\ UNCHANGED << converter, lookup_case, first_run, file_run, repo_run,
                    helper_call, graph_run >>

\* if output_path: write the result there (lines 139-144), which can fail
SaveOutput ==
    /\ docker_run.pc = "save"
    /\ \/ docker_run' = [docker_run EXCEPT !.pc = "summary"]
       \/ /\ docker_run.output_path
          /\ docker_run' = Raise(docker_run, "OSError")
    /\ UNCHANGED << converter, lookup_case, first_run, file_run, repo_run,
                    helper_call, graph_run >>

\* self._print_summary(result, duration); return result (lines 147-149):
\* the summary formats metadata.get('resolution_rate', 'N/A') with :.1f
\* (line 216), which raises ValueError on the string 'N/A'
PrintSummaryAndReturn ==
    /\ docker_run.pc = "summary"
    /\ docker_run' =
          IF docker_run.result[1].resolution_rate = "number"
          THEN [docker_run EXCEPT !.pc = "returned"]
          ELSE Raise(docker_run, "ValueError")
    /\ UNCHANGED << converter, lookup_case, first_run, file_run, repo_run,
                    helper_call, graph_run >>

NextDocker ==
    \/ CheckCodePath
    \/ LaunchContainer
    \/ Tick
    \/ AnalyzerWritesResult
    \/ ContainerExits
    \/ TimeoutExpired
    \/ StopContainer
    \/ CheckRun
    \/ LoadResult
    \/ SaveOutput
    \/ PrintSummaryAndReturn

SpecDocker == InitDocker /\ [][NextDocker]_vars

\* analyze_codebase has ended, by return or by exception
DockerFinished == docker_run.pc \in {"returned", "raised"}

(***************************************************************************)
(* C15: analyze_codebase returns a result only when the container run      *)
(* exited with code 0 within the timeout and analysis.json exists in the   *)
(* output directory; when the code path does not exist, the exit code is   *)
(* not 0, the run timed out, the command could not be executed or the      *)
(* result file is missing, it raises and returns no result.                *)
(***************************************************************************)
C15_ReturnsOnlyOnCleanRun ==
    /\ docker_run.pc = "returned" =>
          /\ docker_run.result # None
          /\ docker_run.path_exists
          /\ docker_run.run = "exit_zero"
          /\ docker_run.elapsed < docker_run.timeout
          /\ docker_run.result_file
    /\ (/\ DockerFinished
        /\ \/ ~docker_run.path_exists
           \/ docker_run.run \in {"exit_nonzero", "timeout", "error"}
           \/ ~docker_run.result_file)
       => /\ docker_run.pc = "raised"
          /\ docker_run.error # None
          /\ docker_run.result = None

\* a call that returned its result after a run that used up some of its time
C15_Witness ==
    /\ docker_run.pc = "returned"
    /\ docker_run.result # None
    /\ docker_run.elapsed > 0
    /\ docker_run.timeout > 1

(***************************************************************************)
(* C16: whenever the container run exceeds the configured timeout, the     *)
(* named container has been stopped by the time analyze_codebase has       *)
(* finished, so that no analyzer process of that run is left running, and  *)
(* the run is reported as a failure.                                       *)
(***************************************************************************)
C16_TimeoutReclaimsContainer ==
    (DockerFinished /\ docker_run.run = "timeout") =>
        /\ docker_run.container # "running"
        /\ docker_run.pc = "raised"

(***************************************************************************)
(* ComprehensiveMultiLanguageAnalyzer.analyze_file: the file, what the     *)
(* file system and the two extractors answer for it, and the stages.       *)
(***************************************************************************)
\* the length below which analyze_file skips a file (line 1727)
MinContentLength == 10

\* Path(file_path).stem: the last path component without its last suffix
RFindChar(s, c) ==
    LET hits == { k \in DOMAIN s : s[k] = c }
    IN  IF hits = {} THEN 0 ELSE CHOOSE k \in hits : \A h \in hits : h <= k

stem(file_path) ==
    LET name == DropFirst(file_path, RFindChar(file_path, "/"))
        dot == RFindChar(name, ".")
    IN  IF 1 < dot /\ dot < Len(name) THEN SubSeq(name, 1, dot - 1) ELSE name

\* languages with a regex pattern table in
\* RegexFallbackAnalyzer._get_language_patterns
fallback_languages == {"java", "c", "cpp", "go", "rust", "ruby", "php"}

\* the outcome of a piece of code: a value, or an exception
Returned(value) == [raised |-> FALSE, value |-> value]

Raised == [raised |-> TRUE, value |-> None]

\* try: ... except Exception: <value>
except_ExceptionReraised(outcome, value) == outcome

except_Exception(outcome, value) ==
    IF outcome.raised THEN Returned(value) ELSE outcome

\* The IR an extractor builds for a file from the declarations it found
\* (_extract_info_from_tree with _extract_function_info and
\* _extract_class_info; RegexFallbackAnalyzer.analyze_file): every entity
\* carries the file's path and its stem as module name, no function has a
\* class and no class has parents.
FunctionInfoOf(file, decl) ==
    [name |-> decl.name, file_path |-> file.path, parameters |-> decl.parameters,
     calls |-> decl.calls, called_by |-> <<>>, class_name |-> None,
     module_name |-> stem(file.path), language |-> file.language]

ClassInfoOf(file, name) ==
    [name |-> name, file_path |-> file.path, parent_classes |-> <<>>,
     module_name |-> stem(file.path), language |-> file.language]

CommentInfoOf(file, decl) ==
    [content |-> decl.content, line_number |-> decl.line_number,
     comment_type |-> decl.comment_type, language |-> file.language]

ModuleInfoOf(file, import_stmts, found_comments) ==
    [name |-> stem(file.path), file_path |-> file.path, imports |-> import_stmts,
     language |-> file.language,
     comments |-> [k \in DOMAIN found_comments |->
                      CommentInfoOf(file, found_comments[k])]]

\* the grammar pass sees parameters, calls and imports
extract_info_from_tree(file) ==
    [functions |-> [k \in DOMAIN file.found.functions |->
                       FunctionInfoOf(file, file.found.functions[k])],
     classes |-> [k \in DOMAIN file.found.classes |->
                     ClassInfoOf(file, file.found.classes[k])],
     module |-> ModuleInfoOf(file, file.found.imports, file.found.comments)]

\* the regex pass sees names only: parameters=[], calls=[], imports=[]
regex_info(file) ==
    [functions |-> [k \in DOMAIN file.found.functions |->
                       FunctionInfoOf(file,
                           [file.found.functions[k] EXCEPT
                               !.parameters = <<>>, !.calls = <<>>])],
     classes |-> [k \in DOMAIN file.found.classes |->
                     ClassInfoOf(file, file.found.classes[k])],
     module |-> ModuleInfoOf(file, <<>>, file.found.comments)]

\* open(file_path).read() (lines 1724-1725)
read_content(file) ==
    IF file.read = "ok" THEN Returned(file.content) ELSE Raised

\* len(content.strip()) < 10 (line 1727)
too_short(content) == Len(Strip(content)) < MinContentLength

\* TREE_SITTER_AVAILABLE and language in TREE_SITTER_MODULES (line 1731)
grammar_registered(file) == file.grammar # "unregistered"

\* UniversalTreeSitterAnalyzer(language).analyze_file (lines 370-380): None
\* without a parser; parse and extraction inside try / except -> None
grammar_pass(file) ==
    IF file.grammar = "no_parser"
    THEN None
    ELSE except_Exception(
             IF file.grammar = "raises"
             THEN Raised
             ELSE Returned(Some(extract_info_from_tree(file))),
             None).value

\* RegexFallbackAnalyzer(language).analyze_file (lines 648-717): None for a
\* language without patterns, else always a result
fallback_pass(file) ==
    IF file.language \notin fallback_languages
    THEN Returned(None)
    ELSE IF file.fallback = "raises"
         THEN Raised
         ELSE Returned(Some(regex_info(file)))

\* the try block of analyze_file with content already read (lines 1727-1739)
extract_from(file, content) ==
    IF too_short(content)
    THEN Returned(None)
    ELSE IF grammar_registered(file) /\ grammar_pass(file) # None
         THEN Returned(grammar_pass(file))
         ELSE fallback_pass(file)

\* analyze_file as a whole (lines 1715-1743)
analyze_file(file) ==
    IF ~file.exists \/ file.ignored
    THEN Returned(None)
    ELSE except_Exception(
             IF read_content(file).raised
             THEN Raised
             ELSE extract_from(file, read_content(file).value),
             None)

(***************************************************************************)
(* analyze_file on its own: one call on any file.                          *)
(***************************************************************************)
MaxNonWhitespace == 10

MaxGaps == 2

RECURSIVE Repeat(_, _)
Repeat(c, k) == IF k <= 0 THEN <<>> ELSE <<c>> \o Repeat(c, k - 1)

\* a content of n non-whitespace characters, the first `gaps` of them each
\* followed by a blank, with `lead` blanks before and `trail` newlines after
Content(lead, n, gaps, trail) ==
    Repeat(" ", lead)
        \o Flatten([k \in 1..n |->
                       IF k <= gaps /\ k < n THEN <<"x", " ">> ELSE <<"x">>])
        \o Repeat("\n", trail)

Contents ==
    { Content(lead, n, gaps, trail) :
          lead \in 0..1, trail \in 0..1, gaps \in 0..MaxGaps,
          n \in (MinContentLength - MaxGaps)..MaxNonWhitespace }

p_src_app_py == <<"s", "r", "c", "/", "a", "p", "p", ".", "p", "y">>

\* what the extractors find in a file: nothing, or some declarations
NothingFound ==
    [functions |-> <<>>, classes |-> <<>>, imports |-> <<>>, comments |-> <<>>]

SomeFound ==
    [functions |-> << [name |-> n_main, parameters |-> <<n_argv>>,
                       calls |-> <<n_helper>>] >>,
     classes |-> <<n_Dog>>,
     imports |-> <<i_import_lib>>,
     comments |-> << [content |-> n_todo, line_number |-> 1,
                      comment_type |-> "line"] >>]

AnalyzedFiles ==
    [path : {p_src_app_py},
     language : {"python", "go", "html"},
     exists : BOOLEAN,
     ignored : BOOLEAN,
     read : {"ok", "raises"},
     content : Contents,
     grammar : {"unregistered", "no_parser", "raises", "tree"},
     fallback : {"raises", "matches"},
     found : {NothingFound, SomeFound}]

InitFile ==
    /\ ConverterIdle
    /\ lookup_case = Idle
    /\ first_run = Idle
    /\ repo_run = Idle
    /\ docker_run = Idle
    /\ helper_call = Idle
    /\ graph_run = Idle
    /\ file_run \in [pc : {"called"}, file : AnalyzedFiles,
                     content : {None}, result : {None}]

\* return <value> from analyze_file
ReturnFromFile(run, value) == [run EXCEPT !.pc = "returned", !.result = value]

\* os.path.exists and _should_ignore_file (lines 1717-1721)
CheckFile ==
    /\ file_run.pc = "called"
    /\ file_run' =
          IF ~file_run.file.exists \/ file_run.file.ignored
          THEN ReturnFromFile(file_run, None)
          ELSE [file_run EXCEPT !.pc = "read"]
    /\ UNCHANGED << converter, lookup_case, first_run, repo_run, docker_run,
                    helper_call, graph_run >>

\* read the content and test its length (lines 1723-1728); a failing read
\* lands in except Exception: return None (lines 1741-1743)
ReadFile ==
    /\ file_run.pc = "read"
    /\ LET outcome == except_Exception(read_content(file_run.file), None)
       IN  file_run' =
              IF outcome.raised
              THEN [file_run EXCEPT !.pc = "raised"]
              ELSE IF outcome.value = None \/ too_short(outcome.value)
                   THEN ReturnFromFile(file_run, None)
                   ELSE [file_run EXCEPT
                            !.content = Some(outcome.value),
                            !.pc = IF grammar_registered(file_run.file)
                                   THEN "grammar" ELSE "fallback"]
    /\ UNCHANGED << converter, lookup_case, first_run, repo_run, docker_run,
                    helper_call, graph_run >>

\* the Tree-sitter pass; `if result: return result` (lines 1731-1735)
GrammarPass ==
    /\ file_run.pc = "grammar"
    /\ file_run' =
          IF grammar_pass(file_run.file) # None
          THEN ReturnFromFile(file_run, grammar_pass(file_run.file))
          ELSE [file_run EXCEPT !.pc = "fallback"]
    /\ UNCHANGED << converter, lookup_case, first_run, repo_run, docker_run,
                    helper_call, graph_run >>

\* the regex pass (lines 1737-1739), inside the same try
FallbackPass ==
    /\ file_run.pc = "fallback"
    /\ LET outcome == except_Exception(fallback_pass(file_run.file), None)
       IN  file_run' =
              IF outcome.raised
              THEN [file_run EXCEPT !.pc = "raised"]
              ELSE ReturnFromFile(file_run, outcome.value)
    /\ UNCHANGED << converter, lookup_case, first_run, repo_run, docker_run,
                    helper_call, graph_run >>

NextFile == CheckFile \/ ReadFile \/ GrammarPass \/ FallbackPass

SpecFile == InitFile /\ [][NextFile]_vars

NonWhitespaceCount(content) ==
    Cardinality({ k \in DOMAIN content : content[k] \notin Whitespace })

(***************************************************************************)
(* C11: for every file whose content has fewer than 10 non-whitespace      *)
(* characters, counted wherever whitespace occurs in the file,             *)
(* analyze_file yields no IR at all: no functions, no classes and no       *)
(* module entry.                                                           *)
(***************************************************************************)
C11_TinyFileYieldsNoIR ==
    (/\ file_run.pc = "returned"
     /\ NonWhitespaceCount(file_run.file.content) < MinContentLength)
    => file_run.result = None

\* the stages agree with analyze_file taken as a whole
FileStagesAgree ==
    file_run.pc \in {"returned", "raised"} =>
        /\ analyze_file(file_run.file).raised = (file_run.pc = "raised")
        /\ analyze_file(file_run.file).value = file_run.result

(***************************************************************************)
(* ComprehensiveMultiLanguageAnalyzer.analyze_repository: the candidate    *)
(* files _find_code_files returned, the per-file loop, the call links,     *)
(* the conversion and the output.                                          *)
(***************************************************************************)
MaxFiles == 2

p_pkg_app_py == <<"p", "k", "g", "/", "a", "p", "p", ".", "p", "y">>

p_lib_app_py == <<"l", "i", "b", "/", "a", "p", "p", ".", "p", "y">>

p_lib_go == <<"l", "i", "b", ".", "g", "o">>

p_bad_py == <<"b", "a", "d", ".", "p", "y">>

p_util_rb == <<"u", "t", "i", "l", ".", "r", "b">>

p_tiny_py == <<"t", "i", "n", "y", ".", "p", "y">>

\* a file that exists, is not ignored, reads well and parses with its grammar
SoundFile(path, language, found) ==
    [path |-> path, language |-> language, exists |-> TRUE, ignored |-> FALSE,
     read |-> "ok", content |-> Content(0, MinContentLength, 1, 1),
     grammar |-> "tree", fallback |-> "matches", found |-> found]

\* The candidate files: two sound Python files of the same stem in different
\* directories; a Go file whose grammar pass throws, left to the regex pass;
\* an unreadable file; a Ruby file without grammar whose regex pass throws;
\* a file too short to be analysed.
RepoFiles ==
    { SoundFile(p_pkg_app_py, "python", SomeFound),
      SoundFile(p_lib_app_py, "python",
                [NothingFound EXCEPT !.classes = <<n_Animal>>]),
      [SoundFile(p_lib_go, "go",
                 [NothingFound EXCEPT !.functions =
                     << [name |-> n_helper, parameters |-> <<>>,
                         calls |-> <<n_lib_get>>] >>])
          EXCEPT !.grammar = "raises"],
      [SoundFile(p_bad_py, "python", SomeFound) EXCEPT !.read = "raises"],
      [SoundFile(p_util_rb, "ruby", SomeFound)
          EXCEPT !.grammar = "unregistered", !.fallback = "raises"],
      [SoundFile(p_tiny_py, "python", NothingFound)
          EXCEPT !.content = Content(0, 3, 2, 1)] }

\* a file list holds every path once
FileLists ==
    { files \in SeqsUpTo(RepoFiles, MaxFiles) :
          \A a, b \in DOMAIN files : a # b => files[a].path # files[b].path }

\* _clean_function_call (lines 1841-1845)
clean_function_call(call) ==
    IF HasChar(call, ".") THEN Last(Split(call, s_dot)) ELSE call

\* func_map of _build_call_relationships (lines 1811-1817): name -> function,
\* a function being its position in the list
RECURSIVE func_map(_, _)
func_map(fs, n) ==
    IF n = 0
    THEN EmptyDict
    ELSE LET func == fs[n]
             m0 == Put(func_map(fs, n - 1), func.name, n)
             m1 == IF Truthy(func.class_name)
                   THEN Put(Put(m0,
                            Qualified(func.class_name[1], func.name), n),
                            function_full_name(func), n)
                   ELSE m0
         IN  Put(m1, Qualified(func.module_name, func.name), n)

\* possible_names without its None entries (lines 1824-1829)
possible_names(func, clean_call) ==
    << clean_call, Qualified(func.module_name, clean_call) >>
        \o (IF Truthy(func.class_name)
            THEN << Qualified(func.class_name[1], clean_call),
                    Qualified(func.module_name,
                              Qualified(func.class_name[1], clean_call)) >>
            ELSE <<>>)

\* one iteration of `for call in func.calls` (lines 1820-1839) on the
\* function list fs: the called function, if found and not equal to the
\* caller, gets the caller's name appended to called_by unless already there
link_callRecordingCallee(fs, fmap, i, call) ==
    LET func == fs[i]
        names == possible_names(func, clean_function_call(call))
        hits == { k \in DOMAIN names : names[k] # <<>> /\ names[k] \in DOMAIN fmap }
        called == IF hits = {} THEN 0
                  ELSE fmap[names[CHOOSE k \in hits : \A h \in hits : k <= h]]
        caller_name == IF Truthy(func.class_name)
                       THEN Qualified(func.class_name[1], func.name)
                       ELSE func.name
    IN  IF called # 0 /\ fs[called] # func
           /\ caller_name \notin Range(fs[called].called_by)
        THEN [fs EXCEPT ![called].called_by = Append(@, caller_name),
                        ![i].calls = Append(@, function_full_name(fs[called]))]
        ELSE fs

link_call(fs, fmap, i, call) ==
    LET func == fs[i]
        names == possible_names(func, clean_function_call(call))
        hits == { k \in DOMAIN names : names[k] # <<>> /\ names[k] \in DOMAIN fmap }
        called == IF hits = {} THEN 0
                  ELSE fmap[names[CHOOSE k \in hits : \A h \in hits : k <= h]]
        caller_name == IF Truthy(func.class_name)
                       THEN Qualified(func.class_name[1], func.name)
                       ELSE func.name
    IN  IF called # 0 /\ fs[called] # func
           /\ caller_name \notin Range(fs[called].called_by)
        THEN [fs EXCEPT ![called].called_by = Append(@, caller_name)]
        ELSE fs

\* the second loop of _build_call_relationships from call j of function i on
RECURSIVE link_calls(_, _, _, _)
link_calls(fs, fmap, i, j) ==
    IF i > Len(fs) THEN fs
    ELSE IF j > Len(fs[i].calls) THEN link_calls(fs, fmap, i + 1, 1)
         ELSE link_calls(link_call(fs, fmap, i, fs[i].calls[j]), fmap, i, j + 1)

build_call_relationships(fs) == link_calls(fs, func_map(fs, Len(fs)), 1, 1)

InitRepo ==
    /\ ConverterIdle
    /\ lookup_case = Idle
    /\ first_run = Idle
    /\ file_run = Idle
    /\ docker_run = Idle
    /\ helper_call = Idle
    /\ graph_run = Idle
    /\ \E files \in FileLists :
          repo_run = [pc |-> IF files = <<>> THEN "linking" ELSE "files",
                      files |-> files, i |-> 1, visited |-> <<>>,
                      all_functions |-> <<>>, all_classes |-> <<>>,
                      all_modules |-> <<>>, all_comments |-> <<>>,
                      file_count |-> 0]

\* One iteration of `for file_path in self._find_code_files(repo_path)`
\* (lines 1594-1618).  Every candidate has a supported language, or
\* _find_code_files would not have listed it (lines 1761-1763).  An
\* exception from the body is caught and the loop continues; one that is
\* not caught leaves analyze_repository.
AnalyzeNextFile ==
    /\ repo_run.pc = "files"
    /\ \E outcome \in { except_Exception(
                             analyze_file(repo_run.files[repo_run.i]), None) } :
          LET result == outcome.value
              more == [repo_run EXCEPT
                          !.i = @ + 1,
                          !.visited = Append(@, repo_run.i),
                          !.pc = IF repo_run.i = Len(repo_run.files)
                                 THEN "linking" ELSE "files"]
          IN  repo_run' =
                 IF outcome.raised
                 THEN [repo_run EXCEPT !.pc = "aborted"]
                 ELSE IF result = None
                      THEN more
                      ELSE [more EXCEPT
                               !.all_functions = @ \o result[1].functions,
                               !.all_classes = @ \o result[1].classes,
                               !.all_modules = Append(@, result[1].module),
                               !.all_comments = @ \o result[1].module.comments,
                               !.file_count = @ + 1]
    /\ UNCHANGED << converter, lookup_case, first_run, file_run, docker_run,
                    helper_call, graph_run >>

\* self._build_call_relationships(all_functions) (lines 1624-1626)
BuildCallRelationships ==
    /\ repo_run.pc = "linking"
    /\ repo_run' = [repo_run EXCEPT
                       !.pc = "convert",
                       !.all_functions = build_call_relationships(@)]
    /\ UNCHANGED << converter, lookup_case, first_run, file_run, docker_run,
                    helper_call, graph_run >>

\* CCMConverter() and the call of convert_to_ccm with the accumulated IR
\* (lines 1643, 1656-1662): a fresh counter and fresh locals
StartConversion ==
    /\ repo_run.pc = "convert"
    /\ repo_run' = [repo_run EXCEPT !.pc = "converting"]
    /\ modules' = repo_run.all_modules
    /\ classes' = repo_run.all_classes
    /\ functions' = repo_run.all_functions
    /\ comments' = repo_run.all_comments
    /\ pc' = Position(At("modules", 1, 1))'
    /\ UNCHANGED << node_id_counter, ccm_nodes, node_lookup, module_nodes,
                    class_nodes, function_nodes, all_relationships,
                    resolved_count, unresolved_count, metadata >>
    /\ UNCHANGED << lookup_case, first_run, file_run, docker_run,
                    helper_call, graph_run >>

\* convert_to_ccm has returned: to_dict and the output files (lines 1684-1713)
WriteOutput ==
    /\ repo_run.pc = "converting"
    /\ Done
    /\ repo_run' = [repo_run EXCEPT !.pc = "completed"]
    /\ UNCHANGED << converter, lookup_case, first_run, file_run, docker_run,
                    helper_call, graph_run >>

\* The steps of convert_to_ccm are those of Next without ProcessInherit: the
\* extractors build every ClassInfo with parent_classes=[] (lines 520, 694),
\* so the inheritance loop has no iteration here.
NextRepo ==
    \/ AnalyzeNextFile
    \/ BuildCallRelationships
    \/ StartConversion
    \/ CreateModuleNode
    \/ CreateClassNode
    \/ CreateFunctionNode
    \/ CreateCommentNode
    \/ ProcessImport
    \/ ProcessCall
    \/ BuildResult
    \/ WriteOutput

SpecRepo == InitRepo /\ [][NextRepo]_vars

\* every step that can be taken is taken in the end: the process runs on
SpecRepoLive == SpecRepo /\ WF_vars(NextRepo)

RepoSane ==
    /\ repo_run.pc # "aborted"
    /\ repo_run.pc = "completed" => Len(ccm_nodes) =
          Len(repo_run.all_modules) + Len(repo_run.all_classes)
          + Len(repo_run.all_functions) + Len(repo_run.all_comments)

\* An exception ended the analysis of the file: reading it raised, or the
\* last extractor tried on it raised.
Failing(file) ==
    /\ file.exists
    /\ ~file.ignored
    /\ \/ file.read = "raises"
       \/ /\ ~too_short(file.content)
          /\ ~grammar_registered(file) \/ grammar_pass(file) = None
          /\ fallback_pass(file).raised

\* the per-file loop has ended normally
LoopOver == repo_run.pc \in {"linking", "convert", "converting", "completed"}

\* the entities in a list of IR entities that come from the file at path,
\* as (name, path) pairs
FromFile(entities, path) ==
    LET own == SelectSeq(entities, LAMBDA e : e.file_path = path)
    IN  [k \in DOMAIN own |-> << own[k].name, own[k].file_path >>]

NamesAndPaths(entities) ==
    [k \in DOMAIN entities |-> << entities[k].name, entities[k].file_path >>]

\* what the accumulated IR must hold of file: nothing, or the result of its
\* analysis
IRPresent(file) ==
    LET ir == analyze_file(file).value
    IN  /\ FromFile(repo_run.all_modules, file.path) =
              (IF ir = None THEN <<>> ELSE NamesAndPaths(<<ir[1].module>>))
        /\ FromFile(repo_run.all_classes, file.path) =
              (IF ir = None THEN <<>> ELSE NamesAndPaths(ir[1].classes))
        /\ FromFile(repo_run.all_functions, file.path) =
              (IF ir = None THEN <<>> ELSE NamesAndPaths(ir[1].functions))

NoIRFrom(file) ==
    /\ FromFile(repo_run.all_modules, file.path) = <<>>
    /\ FromFile(repo_run.all_classes, file.path) = <<>>
    /\ FromFile(repo_run.all_functions, file.path) = <<>>

\* the finished graph has one node per accumulated IR entity, in the order
\* modules, classes, functions, comments
GraphHoldsIR ==
    /\ NamesAndPaths(modules) = NamesAndPaths(repo_run.all_modules)
    /\ NamesAndPaths(classes) = NamesAndPaths(repo_run.all_classes)
    /\ NamesAndPaths(functions) = NamesAndPaths(repo_run.all_functions)
    /\ Len(ccm_nodes) = Len(modules) + Len(classes) + Len(functions) + Len(comments)
    /\ \A m \in DOMAIN modules :
          /\ ccm_nodes[ModuleNodeAt(m)].name = modules[m].name
          /\ ccm_nodes[ModuleNodeAt(m)].node_type = "module"
    /\ \A c \in DOMAIN classes :
          /\ ccm_nodes[ClassNodeAt(c)].name = classes[c].name
          /\ ccm_nodes[ClassNodeAt(c)].node_type = "class"
    /\ \A g \in DOMAIN functions :
          ccm_nodes[FunctionNodeAt(g)].name = functions[g].name

\* C12, at every moment of the run
C12_BatchSurvives ==
    /\ repo_run.pc # "aborted"
    /\ LoopOver =>
          /\ repo_run.visited = [k \in DOMAIN repo_run.files |-> k]
          /\ \A k \in DOMAIN repo_run.files :
                IF Failing(repo_run.files[k])
                THEN NoIRFrom(repo_run.files[k])
                ELSE IRPresent(repo_run.files[k])
    /\ repo_run.pc = "completed" => GraphHoldsIR

(***************************************************************************)
(* C12: a failure while reading, parsing or extracting a single file never *)
(* aborts the batch: for every list of candidate files, some of which      *)
(* fail, analyze_repository processes every file, the failing files        *)
(* contribute no IR, the IR of every other file is in the final graph, and *)
(* the run reaches graph construction and completes.                       *)
(***************************************************************************)
C12_FileFailureNeverAborts ==
    /\ []C12_BatchSurvives
    /\ <>(repo_run.pc = "completed")

\* a completed run in which a failing file came before a file with IR, and
\* a file whose grammar pass threw was analysed by the regex pass
C12_Witness ==
    /\ repo_run.pc = "completed"
    /\ \E a, b \in DOMAIN repo_run.files :
          /\ a < b
          /\ Failing(repo_run.files[a])
          /\ ~Failing(repo_run.files[b])
          /\ FromFile(modules, repo_run.files[b].path) # <<>>
    /\ \E k \in DOMAIN repo_run.files :
          /\ repo_run.files[k].grammar = "raises"
          /\ FromFile(functions, repo_run.files[k].path) # <<>>

\* the nodes of the modules extracted from the same file as classes[c]
ModuleNodesOfSameFile(c) ==
    { ModuleNodeAt(m) : m \in { m \in DOMAIN modules :
          modules[m].file_path = classes[c].file_path } }

(***************************************************************************)
(* C19: for every class whose owning module, the module extracted from the *)
(* same file, is in the batch, the class node's parent_id is the id of     *)
(* that module's node and that node's children_ids holds the class id,     *)
(* also when several files share a module name; a class without a module   *)
(* in the batch has no parent.                                             *)
(***************************************************************************)
C19_ClassParentIsOwningModule ==
    Done =>
        \A c \in DOMAIN classes :
            LET node == ccm_nodes[ClassNodeAt(c)]
            IN  IF ModuleNodesOfSameFile(c) # {}
                THEN \E n \in ModuleNodesOfSameFile(c) :
                        /\ node.parent_id = Some(ccm_nodes[n].id)
                        /\ node.id \in Range(ChildrenOf(ccm_nodes[n]))
                ELSE node.parent_id = None

(***************************************************************************)
(* The converter's pure helpers on their own: one call of the node-type    *)
(* decision of lines 1076-1079 on any function entry, or one call of       *)
(* _is_likely_builtin_call on any call text.                               *)
(***************************************************************************)
\* function entries: the three initializer names and an ordinary one, in
\* four languages, with and without an owning class
NodeTypeCalls ==
    [pc : {"called"}, helper : {"node_type"},
     argument : [name : {s___init__, s_constructor, s_init, n_main},
                 class_name : {None, Some(n_Dog)},
                 language : {"python", "javascript", "swift", "java"}],
     result : {"none"}]

\* call texts: bare and dotted names in and out of the two lists, short
\* names, the empty text, and expressions
CallTexts ==
    { <<"g", "e", "t">>,
      <<"l", "i", "b", ".", "g", "e", "t">>,
      <<"d", "e", "l", "e", "t", "e">>,
      <<"x", ".", "d", "e", "l", "e", "t", "e">>,
      <<"p", "u", "s", "h">>,
      <<"a", ".", "p", "u", "s", "h">>,
      <<"t", "o", "S", "t", "r", "i", "n", "g">>,
      <<"s", ".", "t", "o", "S", "t", "r", "i", "n", "g">>,
      <<"p", "r", "i", "n", "t">>,
      <<"o", "b", "j", ".", "p", "r", "i", "n", "t">>,
      <<"c", "o", "n", "s", "o", "l", "e", ".", "l", "o", "g">>,
      <<"m", "a", "i", "n">>,
      <<"l", "i", "b", ".", "m", "a", "i", "n">>,
      <<"h", "e", "l", "p", "e", "r">>,
      <<"D", "o", "g", ".", "s", "p", "e", "a", "k">>,
      <<"x">>,
      <<"a", "b">>,
      <<"a", ".", "b">>,
      <<>>,
      <<"a", "+", "b">>,
      <<"f", "(", "x", ")">>,
      <<"d", "[", "k", "]">>,
      <<"a", "-", "b">>,
      <<"n", "=", "1">> }

FilterCalls ==
    [pc : {"called"}, helper : {"is_likely_builtin_call"},
     argument : CallTexts, result : {"none"}]

InitHelpers ==
    /\ ConverterIdle
    /\ lookup_case = Idle
    /\ first_run = Idle
    /\ file_run = Idle
    /\ repo_run = Idle
    /\ docker_run = Idle
    /\ graph_run = Idle
    /\ \/ helper_call \in NodeTypeCalls
       \/ helper_call \in FilterCalls

\* node_type = METHOD if class_name else FUNCTION; CONSTRUCTOR by name
\* (lines 1076-1079)
DetermineNodeType ==
    /\ helper_call.pc = "called"
    /\ helper_call.helper = "node_type"
    /\ helper_call' = [helper_call EXCEPT
                          !.pc = "returned",
                          !.result = function_node_type(helper_call.argument)]
    /\ UNCHANGED << converter, lookup_case, first_run, file_run, repo_run,
                    docker_run, graph_run >>

\* _is_likely_builtin_call(call) runs to its return statement
IsLikelyBuiltinCall ==
    /\ helper_call.pc = "called"
    /\ helper_call.helper = "is_likely_builtin_call"
    /\ helper_call' = [helper_call EXCEPT
                          !.pc = "returned",
                          !.result = is_likely_builtin_call(helper_call.argument)]
    /\ UNCHANGED << converter, lookup_case, first_run, file_run, repo_run,
                    docker_run, graph_run >>

NextHelpers == DetermineNodeType \/ IsLikelyBuiltinCall

SpecHelpers == InitHelpers /\ [][NextHelpers]_vars

\* the initializer name of each language family
InitializerConvention(language) ==
    CASE language = "python" -> {s___init__}
      [] language \in {"javascript", "typescript"} -> {s_constructor}
      [] language = "swift" -> {s_init}
      [] OTHER -> {}

(***************************************************************************)
(* C21: a function node's node_type is method if the entry has an owning   *)
(* class and function otherwise, and it is constructor exactly when the    *)
(* entry's name is the initializer name of the entry's own language        *)
(* family: the language decides, not the name alone.                       *)
(***************************************************************************)
C21_ConstructorByLanguage ==
    (helper_call.pc = "returned" /\ helper_call.helper = "node_type") =>
        LET function_info == helper_call.argument
        IN  helper_call.result =
                IF function_info.name \in InitializerConvention(function_info.language)
                THEN "constructor"
                ELSE IF function_info.class_name # None THEN "method" ELSE "function"

\* the builtin/common-method list read as one list
one_list == builtin_functions \cup common_patterns

\* the last dot-separated segment of a text
LastSegment(text) == DropFirst(text, RFindChar(text, "."))

HasSpecialChar(text) == \E k \in DOMAIN text : text[k] \in special_chars

\* C23 as stated: one list, applied alike to the text and to its last segment
C23_OneListForBareAndSegment ==
    (helper_call.pc = "returned" /\ helper_call.helper = "is_likely_builtin_call") =>
        LET text == helper_call.argument
        IN  helper_call.result =
                ( \/ text \in one_list
                  \/ LastSegment(text) \in one_list
                  \/ HasSpecialChar(text)
                  \/ Len(text) <= 2 )

(***************************************************************************)
(* C23: _is_likely_builtin_call(text) is true if and only if text is in    *)
(* the builtin list, or text has a dot and its last segment is in the      *)
(* builtin list or in the common-method list, or text holds one of the     *)
(* characters ( ) [ ] { } + - * / =, or len(text) <= 2.  The common-method *)
(* list is applied to last segments only, so x.delete is filtered and the  *)
(* bare name delete is not.                                                *)
(***************************************************************************)
C23_TwoLists ==
    (helper_call.pc = "returned" /\ helper_call.helper = "is_likely_builtin_call") =>
        LET text == helper_call.argument
        IN  helper_call.result =
                ( \/ text \in builtin_functions
                  \/ /\ RFindChar(text, ".") > 0
                     /\ LastSegment(text) \in builtin_functions \cup common_patterns
                  \/ HasSpecialChar(text)
                  \/ Len(text) <= 2 )

\* a returned call on a dotted text that is filtered only because its last
\* segment is in the common-method list, that segment not being a builtin
C23_Witness ==
    /\ helper_call.pc = "returned"
    /\ helper_call.helper = "is_likely_builtin_call"
    /\ helper_call.result = TRUE
    /\ LET text == helper_call.argument
       IN  /\ RFindChar(text, ".") > 0
           /\ LastSegment(text) \in common_patterns \ builtin_functions
           /\ ~HasSpecialChar(text)
           /\ Len(text) > 2

(***************************************************************************)
(* The keys one Phase 1 iteration registers.                               *)
(***************************************************************************)
\* the six names C22 lists for a function or method
SixFunctionKeys(function_info) ==
    LET bare == function_info.name
        in_module == Qualified(function_info.module_name, bare)
        in_class == Qualified(function_info.class_name[1], bare)
        full == IF function_info.class_name = None
                THEN in_module
                ELSE Qualified(function_info.module_name, in_class)
    IN  { bare, Prefixed(s_function, bare), full, Prefixed(s_function, full),
          in_module }
        \cup (IF function_info.class_name = None THEN {} ELSE { in_class })

SixKeysOfEntity(e) ==
    IF e <= Len(modules) + Len(classes)
    THEN KeysOfEntity(e)
    ELSE SixFunctionKeys(functions[e - Len(modules) - Len(classes)])

\* the iteration that creates entity e writes the new node's id under every
\* key of K(e) and touches no other key
RegistersExactly(K(_)) ==
    pc.phase \in {"modules", "classes", "functions"} =>
        LET e == Len(ccm_nodes) + 1
        IN  /\ DOMAIN node_lookup' = DOMAIN node_lookup \cup K(e)
            /\ \A key \in K(e) : node_lookup'[key] = ccm_nodes'[e].id
            /\ \A key \in DOMAIN node_lookup \ K(e) :
                  node_lookup'[key] = node_lookup[key]

\* the number of distinct keys of entity e: 2, 4, and 4 or 8
KeyCount(e) ==
    IF e <= Len(modules) THEN 2
    ELSE IF e <= Len(modules) + Len(classes) THEN 4
    ELSE IF functions[e - Len(modules) - Len(classes)].class_name = None
         THEN 4 ELSE 8

\* C22 as stated: a function or method registers the six listed keys only
C22_SixKeysPerFunction == [][RegistersExactly(SixKeysOfEntity)]_vars

(***************************************************************************)
(* C22: Phase 1 registers, per entity, exactly these lookup keys and no    *)
(* others: for a module 2 keys (name, module:name); for a class 4 keys     *)
(* (name, class:name, module.class, class:module.class); for a function 4  *)
(* keys (name, module.name, each also in its function: form) and for a     *)
(* method 8 keys (name, module.name, class.name, module.class.name, each   *)
(* also in its function: form).                                            *)
(***************************************************************************)
C22_KeysPerEntity ==
    [][ /\ RegistersExactly(KeysOfEntity)
        /\ pc.phase \in {"modules", "classes", "functions"} =>
              Cardinality(KeysOfEntity(Len(ccm_nodes) + 1))
                  = KeyCount(Len(ccm_nodes) + 1) ]_vars

\* Phase 1 is over and eight keys of the lookup table lead to one method
C22_Witness ==
    /\ PhaseOneOver
    /\ \E g \in DOMAIN functions :
          /\ functions[g].class_name # None
          /\ Cardinality({ key \in DOMAIN node_lookup :
                 node_lookup[key] = ccm_nodes[FunctionNodeAt(g)].id }) = 8

\* the module an "import M [as x]" or "from M import y" statement refers to,
\* and the first segment of its dotted path
ReferencedModule(import_stmt) ==
    LET stmt == Strip(import_stmt)
        rest == IF StartsWith(stmt, s_import_)
                THEN DropFirst(stmt, Len(s_import_))
                ELSE DropFirst(stmt, Len(s_from_))
    IN  Split(LStrip(rest), <<" ">>)[1]

FirstPathSegment(import_stmt) == Split(ReferencedModule(import_stmt), s_dot)[1]

\* C24, one step: the processing of one statement of either form
C24_ImportStep ==
    ( /\ pc.phase = "imports"
      /\ \/ StartsWith(Strip(modules[pc.i].imports[pc.j]), s_import_)
         \/ StartsWith(Strip(modules[pc.i].imports[pc.j]), s_from_) ) =>
        LET segment == FirstPathSegment(modules[pc.i].imports[pc.j])
        IN  all_relationships' =
                Append(all_relationships,
                       Relationship("imports",
                                    find_target_id(segment, node_lookup, NoContext),
                                    segment))

(***************************************************************************)
(* C24: for every import statement, of the form "import a.b.c [as x]" or   *)
(* "from a.b.c import y", the emitted imports relationship has as          *)
(* target_name the first path segment of the referenced module ("a"), and  *)
(* its target_id is resolved with neither module nor class context.        *)
(***************************************************************************)
C24_FirstSegmentTarget == [][C24_ImportStep]_vars

\* the grammar pass on the file throws, or finds no declaration
GrammarYieldsNothing(file) ==
    \/ file.grammar \in {"no_parser", "raises"}
    \/ file.found = NothingFound

\* C25, the grammar stage: a grammar pass that yields nothing hands the file
\* to the pattern-fallback extractor
C25_GrammarStep ==
    (file_run.pc = "grammar" /\ GrammarYieldsNothing(file_run.file)) =>
        file_run'.pc = "fallback"

\* C25, the outcome: a file in which neither extractor finds a declaration
\* contributes no IR
C25_NothingFoundNoIR ==
    (file_run.pc = "returned" /\ file_run.file.found = NothingFound) =>
        file_run.result = None

(***************************************************************************)
(* C25: in analyze_file the pattern-fallback extractor is applied whenever *)
(* no grammar is registered for the language, the grammar pass throws, or  *)
(* the grammar pass yields nothing (no declarations found); the grammar    *)
(* result is used only when it yielded something; and if the fallback also *)
(* yields nothing the file contributes zero IR.                            *)
(***************************************************************************)
C25_FallbackWhenGrammarEmpty ==
    /\ [][C25_GrammarStep]_vars
    /\ []C25_NothingFoundNoIR

(***************************************************************************)
(* The IR of a run after extraction.                                       *)
(***************************************************************************)
\* the entity lists of the run: what the files' extractions returned so far
IR(run) ==
    [functions |-> run.all_functions, classes |-> run.all_classes,
     modules |-> run.all_modules, comments |-> run.all_comments]

\* a step keeps every entity the lists already hold, field by field
KeepsEntities(before, after) ==
    \A kind \in DOMAIN before :
        /\ Len(before[kind]) <= Len(after[kind])
        /\ \A k \in DOMAIN before[kind] : after[kind][k] = before[kind][k]

\* the function list with every called_by left out
WithoutCalledBy(fs) ==
    [k \in DOMAIN fs |-> [field \in DOMAIN fs[k] \ {"called_by"} |-> fs[k][field]]]

AnalysisRunning == repo_run.pc \in {"files", "linking", "convert", "converting"}

\* C26 as stated, one step: no step changes a field of an extracted entity,
\* neither in the run's lists nor in the batch handed to convert_to_ccm
C26_ReadOnlyStep ==
    AnalysisRunning =>
        /\ KeepsEntities(IR(repo_run), IR(repo_run'))
        /\ repo_run.pc = "converting" => UNCHANGED batch

C26_IRReadOnly == [][C26_ReadOnlyStep]_vars

\* C26, one step: only call-relationship building changes an entity, and
\* only by appending to called_by
C26_CalledByStep ==
    AnalysisRunning =>
        /\ KeepsEntities([IR(repo_run) EXCEPT !.functions = WithoutCalledBy(@)],
                         [IR(repo_run') EXCEPT !.functions = WithoutCalledBy(@)])
        /\ \A k \in DOMAIN repo_run.all_functions :
              LET before == repo_run.all_functions[k].called_by
                  after == repo_run'.all_functions[k].called_by
              IN  /\ Len(before) <= Len(after)
                  /\ SubSeq(after, 1, Len(before)) = before
                  /\ repo_run.pc # "linking" => after = before
        /\ repo_run.pc = "converting" => UNCHANGED batch
        /\ repo_run'.pc = "converting" =>
              batch' = << repo_run'.all_modules, repo_run'.all_classes,
                          repo_run'.all_functions, repo_run'.all_comments >>

(***************************************************************************)
(* C26: after a file's extraction has returned, no field of any            *)
(* FunctionInfo, ClassInfo, ModuleInfo or CommentInfo is modified by a     *)
(* later step of the run, except FunctionInfo.called_by: call-relationship *)
(* building appends caller names to the called_by lists of the functions   *)
(* called.  Phase 1, Phase 2 and serialization modify no field at all.     *)
(***************************************************************************)
C26_OnlyCalledByChanges == [][C26_CalledByStep]_vars

\* a completed run in which call-relationship building has given a function
\* of one file the name of its caller in another file
C26_Witness ==
    /\ repo_run.pc = "completed"
    /\ \E k \in DOMAIN repo_run.all_functions :
          /\ repo_run.all_functions[k].called_by # <<>>
          /\ functions[k] = repo_run.all_functions[k]
          /\ \E g \in DOMAIN functions :
                functions[g].file_path # functions[k].file_path
                /\ functions[g].name \in Range(functions[k].called_by)

\* the target names of a node's relationships of one type, in order
TargetNamesOn(n, type) ==
    LET rels == OfType(RelsOf(ccm_nodes[n]), type)
    IN  [k \in DOMAIN rels |-> rels[k].target_name]

\* the target names the raw references of one entity give rise to
ImportTargetsOf(module) ==
    LET found == SelectSeq(module.imports,
                     LAMBDA stmt : Truthy(extract_module_name_from_import(stmt)))
    IN  [k \in DOMAIN found |-> extract_module_name_from_import(found[k])[1]]

CallTargetsOf(function_info) ==
    SelectSeq(function_info.calls,
        LAMBDA call :
            /\ ~is_likely_builtin_call(call)
            /\ find_target_id(call, node_lookup,
                   [module |-> Some(function_info.module_name),
                    class |-> function_info.class_name]) # <<>>)

(***************************************************************************)
(* C27: every relationship is attached to the node created from the IR     *)
(* entity whose raw reference produced it: a module's node carries the     *)
(* imports of that module's import list and no others, a class's node the  *)
(* inherits of its parent list, a function's node the calls of its call    *)
(* list, also when two modules share a stem, two classes share             *)
(* module.class, or two functions share a qualified name.                  *)
(***************************************************************************)
C27_RelationshipsOnOwnNode ==
    Done =>
        /\ \A m \in DOMAIN modules :
              TargetNamesOn(ModuleNodeAt(m), "imports") = ImportTargetsOf(modules[m])
        /\ \A c \in DOMAIN classes :
              TargetNamesOn(ClassNodeAt(c), "inherits") = classes[c].parent_classes
        /\ \A g \in DOMAIN functions :
              TargetNamesOn(FunctionNodeAt(g), "calls") = CallTargetsOf(functions[g])

(***************************************************************************)
(* Resolution against the table Phase 1 built.                             *)
(***************************************************************************)
\* no entity of the batch has a '.' or ':' in its module, class or function name
Plain(name) == ~HasChar(name, ".") /\ ~HasChar(name, ":")

PlainNames ==
    /\ \A m \in DOMAIN modules : Plain(modules[m].name)
    /\ \A c \in DOMAIN classes :
          Plain(classes[c].name) /\ Plain(classes[c].module_name)
    /\ \A g \in DOMAIN functions :
          /\ Plain(functions[g].name) /\ Plain(functions[g].module_name)
          /\ functions[g].class_name # None => Plain(functions[g].class_name[1])

\* the targets asked for: every key of the table, every entity name, every
\* raw reference of the batch, and texts that are no key
AskedTargets ==
    DOMAIN node_lookup
      \cup { m.name : m \in ModuleInfos }
      \cup { c.name : c \in ClassInfos }
      \cup { f.name : f \in FunctionInfos }
      \cup Range(AllParents)
      \cup UNION { Range(functions[g].calls) : g \in DOMAIN functions }
      \cup { n_missing, n_lib_get, Qualified(n_Dog, n_get), <<>> }

\* the contexts asked under: no module or any module name, no class or any
\* class name
AskedContexts ==
    [module : { None } \cup { Some(m.name) : m \in ModuleInfos },
     class : { None } \cup { Some(c.name) : c \in ClassInfos }]

(***************************************************************************)
(* C28: for the lookup table Phase 1 builds from entities whose module,    *)
(* class and function names hold no '.' and no ':', the context never      *)
(* changes the result of _find_target_id: for every target T and every     *)
(* context the result is lookup[T] if T is a key and "" otherwise, so no   *)
(* kind-qualified or context-qualified candidate is ever the first hit.    *)
(***************************************************************************)
C28_ContextNeverDecides ==
    (pc.phase = "result" /\ PlainNames) =>
        \A T \in AskedTargets : \A context \in AskedContexts :
            find_target_id(T, node_lookup, context) =
                IF T \in DOMAIN node_lookup /\ T # <<>>
                THEN node_lookup[T]
                ELSE <<>>

\* Phase 1 and 2 are over and the table holds, for some target and context,
\* a context-qualified candidate under another id than the bare key's
C28_Witness ==
    /\ pc.phase = "result"
    /\ PlainNames
    /\ \E T \in DOMAIN node_lookup : \E context \in AskedContexts :
          \E k \in DOMAIN candidates(T, context) :
              LET key == candidates(T, context)[k]
              IN  /\ k > 4
                  /\ key \in DOMAIN node_lookup
                  /\ node_lookup[key] # node_lookup[T]
    /\ \E T \in AskedTargets : T # <<>> /\ T \notin DOMAIN node_lookup

(***************************************************************************)
(* References between nodes.                                               *)
(***************************************************************************)
\* the ids of the nodes in the node list
NodeIds == { ccm_nodes[k].id : k \in DOMAIN ccm_nodes }

(***************************************************************************)
(* C29: no dangling references: at every point of a conversion, each       *)
(* non-empty target_id of a relationship, inline on a node or in the       *)
(* global list, and each value of the lookup table is the id of a node in  *)
(* the node list.                                                          *)
(***************************************************************************)
C29_NoDanglingReference ==
    /\ \A relationship \in EveryRelationship :
          relationship.target_id # <<>> => relationship.target_id \in NodeIds
    /\ \A key \in DOMAIN node_lookup : node_lookup[key] \in NodeIds

\* a finished graph with a resolved and an unresolved relationship, both
\* inline and in the global list, and a filled lookup table
C29_Witness ==
    /\ Done
    /\ DOMAIN node_lookup # {}
    /\ \E resolved, unresolved \in Range(AllInline) :
          /\ resolved.target_id \in NodeIds
          /\ unresolved.target_id = <<>>
    /\ \E resolved, unresolved \in Range(all_relationships) :
          /\ resolved.target_id \in NodeIds
          /\ unresolved.target_id = <<>>

(***************************************************************************)
(* GraphConverter (graph_converter.py): an instance and the conversions    *)
(* made with it, one after the other.                                      *)
(***************************************************************************)
\* conversions made with one instance
MaxConversions == 2

s_root == <<"r", "o", "o", "t">>

s_slash == <<"/">>

s_edge == <<"e", "d", "g", "e">>

s_pkg == <<"p", "k", "g">>

s_sub == <<"s", "u", "b">>

\* Path(file_path).parts on a POSIX path: the pieces between slashes, empty
\* pieces and "." dropped, "/" in front for an absolute path
PathParts(file_path) ==
    LET IsName(piece) == piece # <<>> /\ piece # s_dot
    IN  (IF StartsWith(file_path, s_slash) THEN <<s_slash>> ELSE <<>>)
            \o SelectSeq(Split(file_path, s_slash), IsName)

\* '.'.join(parts)
RECURSIVE JoinDots(_)
JoinDots(parts) ==
    IF parts = <<>> THEN <<>>
    ELSE IF Len(parts) = 1 THEN parts[1]
    ELSE parts[1] \o s_dot \o JoinDots(Tail(parts))

\* self.package_hierarchy[parent].add(child) on a defaultdict(set); the
\* dict is kept as the sequence of its items in insertion order
hierarchy_add(package_hierarchy, parent, child) ==
    IF \E k \in DOMAIN package_hierarchy : package_hierarchy[k].parent = parent
    THEN [k \in DOMAIN package_hierarchy |->
            IF package_hierarchy[k].parent = parent
            THEN [package_hierarchy[k] EXCEPT !.children = @ \cup {child}]
            ELSE package_hierarchy[k]]
    ELSE Append(package_hierarchy, [parent |-> parent, children |-> {child}])

\* the loop "for i in range(1, len(package_parts) + 1)" from i onward
RECURSIVE add_partial_packages(_, _, _)
add_partial_packages(package_hierarchy, package_parts, i) ==
    IF i > Len(package_parts)
    THEN package_hierarchy
    ELSE LET partial_package == JoinDots(SubSeq(package_parts, 1, i))
             parent_package == IF i > 1
                               THEN JoinDots(SubSeq(package_parts, 1, i - 1))
                               ELSE s_root
         IN  add_partial_packages(
                 hierarchy_add(package_hierarchy, parent_package, partial_package),
                 package_parts, i + 1)

\* _build_package_hierarchy: self after the loop over nodes_data
RECURSIVE build_package_hierarchy(_, _)
build_package_hierarchy(self, nodes_data) ==
    IF nodes_data = <<>>
    THEN self
    ELSE LET file_path == Head(nodes_data).file_path
             path_parts == PathParts(file_path)
             package_parts == SubSeq(path_parts, 1, Len(path_parts) - 1)
         IN  IF file_path # <<>> /\ Len(path_parts) > 1
             THEN build_package_hierarchy(
                      [self EXCEPT
                          !.file_to_package =
                              Put(@, file_path, JoinDots(package_parts)),
                          !.package_hierarchy =
                              add_partial_packages(@, package_parts, 1)],
                      Tail(nodes_data))
             ELSE build_package_hierarchy(self, Tail(nodes_data))

\* _convert_nodes: self and graph_nodes after the loop over nodes_data; of a
\* node's metadata the original id and the language are kept, the other
\* entries being copies of the node's own
RECURSIVE convert_nodes(_, _, _)
convert_nodes(self, nodes_data, graph_nodes) ==
    IF nodes_data = <<>>
    THEN [self |-> self, graph_nodes |-> graph_nodes]
    ELSE LET node == Head(nodes_data)
             graph_node_id == node.node_type \o s_underscore
                                 \o ZeroPad(Digits(Len(graph_nodes) + 1), IdWidth)
             complexity == Len(node.relationships)
             graph_node ==
                 [id |-> graph_node_id,
                  name |-> node.name,
                  type |-> node.node_type,
                  file_path |-> node.file_path,
                  package |-> IF node.file_path \in DOMAIN self.file_to_package
                              THEN self.file_to_package[node.file_path]
                              ELSE s_root,
                  size |-> IF complexity \div 5 + 1 > 1
                           THEN complexity \div 5 + 1 ELSE 1,
                  complexity |-> complexity,
                  metadata |-> [original_id |-> node.id,
                                language |-> node.language]]
         IN  IF node.node_type = s_comment
             THEN convert_nodes(self, Tail(nodes_data), graph_nodes)
             ELSE convert_nodes(
                      [self EXCEPT !.node_id_mapping = Put(@, node.id, graph_node_id)],
                      Tail(nodes_data),
                      Append(graph_nodes, graph_node))

\* self.node_id_mapping.get(node_id): None where the id is no key
mapping_get(node_id_mapping, node_id) ==
    IF node_id \in DOMAIN node_id_mapping THEN Some(node_id_mapping[node_id]) ELSE None

\* _find_target_by_name: the first node of that name decides
find_target_by_name(self, target_name, nodes_data) ==
    LET hits == { k \in DOMAIN nodes_data : nodes_data[k].name = target_name }
    IN  IF hits = {}
        THEN None
        ELSE mapping_get(self.node_id_mapping,
                         nodes_data[CHOOSE k \in hits : \A h \in hits : k <= h].id)

\* _get_relationship_weight
get_relationship_weight(rel_type) ==
    CASE rel_type \in {"imports", "contains", "uses"} -> 1
      [] rel_type = "calls" -> 2
      [] rel_type \in {"inherits", "implements", "extends"} -> 3
      [] OTHER -> 1

\* the loop "for rel in relationships" of one source node
RECURSIVE convert_relationships_of(_, _, _, _, _)
convert_relationships_of(self, nodes_data, source_graph_id, relationships, graph_edges) ==
    IF relationships = <<>>
    THEN graph_edges
    ELSE LET rel == Head(relationships)
             target_graph_id ==
                 IF rel.target_id # <<>> /\ rel.target_id \in DOMAIN self.node_id_mapping
                 THEN Some(self.node_id_mapping[rel.target_id])
                 ELSE find_target_by_name(self, rel.target_name, nodes_data)
             graph_edge ==
                 [id |-> s_edge \o s_underscore
                            \o ZeroPad(Digits(Len(graph_edges) + 1), IdWidth),
                  source |-> source_graph_id,
                  target |-> target_graph_id[1],
                  type |-> rel.type,
                  weight |-> get_relationship_weight(rel.type),
                  metadata |-> [target_name |-> rel.target_name,
                                original_target_id |-> rel.target_id]]
         IN  convert_relationships_of(self, nodes_data, source_graph_id,
                 Tail(relationships),
                 IF target_graph_id # None
                 THEN Append(graph_edges, graph_edge)
                 ELSE graph_edges)

\* _convert_relationships: graph_edges after the loop over the nodes from
\* position k onward; edge_counter is the number of edges made so far
RECURSIVE convert_relationships(_, _, _, _)
convert_relationships(self, nodes_data, k, graph_edges) ==
    IF k > Len(nodes_data)
    THEN graph_edges
    ELSE LET source_graph_id == mapping_get(self.node_id_mapping, nodes_data[k].id)
         IN  convert_relationships(self, nodes_data, k + 1,
                 IF source_graph_id = None
                 THEN graph_edges
                 ELSE convert_relationships_of(self, nodes_data, source_graph_id[1],
                          nodes_data[k].relationships, graph_edges))

\* _generate_packages_info: one entry per parent other than 'root', in the
\* insertion order of the parents; the children are kept as a set, list(set)
\* putting them in no particular order
generate_packages_info(self) ==
    LET NotRoot(item) == item.parent # s_root
        items == SelectSeq(self.package_hierarchy, NotRoot)
    IN  [k \in DOMAIN items |->
            [id |-> items[k].parent,
             name |-> Last(Split(items[k].parent, s_dot)),
             full_name |-> items[k].parent,
             children |-> items[k].children,
             type |-> "package"]]

\* a defaultdict(int) filled by counting the values of seq
CountOf(seq) ==
    [v \in Range(seq) |-> Cardinality({ k \in DOMAIN seq : seq[k] = v })]

RECURSIVE SumOf(_)
SumOf(seq) == IF seq = <<>> THEN 0 ELSE Head(seq) + SumOf(Tail(seq))

\* round(total / n, 2) in hundredths; no quotient of fewer than eight
\* numbers lies halfway between two hundredths
Round2(total, n) == (200 * total + n) \div (2 * n)

\* _calculate_statistics and _get_complexity_distribution
calculate_statistics(graph_nodes, graph_edges, analysis_data) ==
    LET complexities == [k \in DOMAIN graph_nodes |-> graph_nodes[k].complexity]
        packages == CountOf([k \in DOMAIN graph_nodes |-> graph_nodes[k].package])
        Bucket(low, high) ==
            Cardinality({ k \in DOMAIN complexities :
                            low <= complexities[k] /\ complexities[k] <= high })
    IN  [total_nodes |-> Len(graph_nodes),
         total_edges |-> Len(graph_edges),
         total_packages |-> Cardinality(DOMAIN packages),
         node_types |-> CountOf([k \in DOMAIN graph_nodes |-> graph_nodes[k].type]),
         edge_types |-> CountOf([k \in DOMAIN graph_edges |-> graph_edges[k].type]),
         languages |-> CountOf([k \in DOMAIN graph_nodes |->
                                   graph_nodes[k].metadata.language]),
         packages |-> packages,
         complexity |->
             [average |-> IF complexities = <<>> THEN 0
                          ELSE Round2(SumOf(complexities), Len(complexities)),
              maximum |-> IF complexities = <<>> THEN 0
                          ELSE CHOOSE c \in Range(complexities) :
                                  \A d \in Range(complexities) : d <= c,
              distribution |-> [low |-> Bucket(0, 5),
                                medium |-> Bucket(6, 15),
                                high |-> Bucket(16, 30),
                                very_high |-> Cardinality({ k \in DOMAIN complexities :
                                                  complexities[k] > 30 })]],
         original_analysis |-> analysis_data.metadata]

\* GraphConverter.__init__
NewGraphConverter ==
    [node_id_mapping |-> EmptyDict,
     package_hierarchy |-> <<>>,
     file_to_package |-> EmptyDict]

\* convert_analysis_to_graph(analysis_file) run from start to return on an
\* instance in state self: the graph it returns
convert_analysis_to_graph(self, analysis_data) ==
    LET nodes_data == analysis_data.nodes
        with_packages == build_package_hierarchy(self, nodes_data)
        converted == convert_nodes(with_packages, nodes_data, <<>>)
        graph_edges == convert_relationships(converted.self, nodes_data, 1, <<>>)
    IN  [nodes |-> converted.graph_nodes,
         edges |-> graph_edges,
         packages |-> generate_packages_info(converted.self),
         statistics |-> calculate_statistics(converted.graph_nodes, graph_edges,
                                             analysis_data),
         metadata |-> [project_name |-> analysis_data.project.name,
                       converter_version |-> "1.0.0"]]


\* an entry of the "nodes" list of an analysis file
AnalysisNode(id, name, node_type, file_path, relationships) ==
    [id |-> id, name |-> name, node_type |-> node_type, file_path |-> file_path,
     language |-> "python", relationships |-> relationships]

\* an entry of a node's "relationships" list
AnalysisRelationship(type, target_name, target_id) ==
    [type |-> type, target_name |-> target_name, target_id |-> target_id]

s_os == <<"o", "s">>

s_py == <<".", "p", "y">>

\* analysis files as convert_to_ccm writes them: a module in two nested
\* directories with a resolved call and an unresolved import; a module at top
\* level with a comment; a class in one directory inheriting inside and
\* outside the file; a module under an absolute path; a file without nodes
AnalysisFiles ==
    { [project |-> [name |-> n_app],
       metadata |-> [total_nodes |-> 3, total_relationships |-> 2],
       nodes |-> <<
         AnalysisNode(generate_id(s_module, 0).id, n_app, s_module,
                      s_pkg \o s_slash \o s_sub \o s_slash \o n_app \o s_py,
                      << AnalysisRelationship("imports", s_os, <<>>) >>),
         AnalysisNode(generate_id(s_function, 1).id, n_main, s_function,
                      s_pkg \o s_slash \o s_sub \o s_slash \o n_app \o s_py,
                      << AnalysisRelationship("calls", n_helper,
                                              generate_id(s_function, 2).id) >>),
         AnalysisNode(generate_id(s_function, 2).id, n_helper, s_function,
                      s_pkg \o s_slash \o s_sub \o s_slash \o n_app \o s_py, <<>>) >>],
      [project |-> [name |-> n_lib],
       metadata |-> [total_nodes |-> 2, total_relationships |-> 0],
       nodes |-> <<
         AnalysisNode(generate_id(s_module, 0).id, n_lib, s_module, n_lib \o s_py, <<>>),
         AnalysisNode(generate_id(s_comment, 1).id,
                      s_comment \o s_underscore \o Digits(3), s_comment,
                      <<>>, <<>>) >>],
      [project |-> [name |-> n_util],
       metadata |-> [total_nodes |-> 3, total_relationships |-> 2],
       nodes |-> <<
         AnalysisNode(generate_id(s_module, 0).id, n_util, s_module,
                      n_util \o s_slash \o n_util \o s_py, <<>>),
         AnalysisNode(generate_id(s_class, 1).id, n_Dog, s_class,
                      n_util \o s_slash \o n_util \o s_py,
                      << AnalysisRelationship("inherits", n_Animal,
                                              generate_id(s_class, 2).id),
                         AnalysisRelationship("inherits", n_Base, <<>>) >>),
         AnalysisNode(generate_id(s_class, 2).id, n_Animal, s_class,
                      n_util \o s_slash \o n_util \o s_py, <<>>) >>],
      [project |-> [name |-> n_main],
       metadata |-> [total_nodes |-> 1, total_relationships |-> 0],
       nodes |-> <<
         AnalysisNode(generate_id(s_module, 0).id, n_main, s_module,
                      s_slash \o n_lib \o s_slash \o n_main \o s_py, <<>>) >>],
      [project |-> [name |-> n_x],
       metadata |-> [total_nodes |-> 0, total_relationships |-> 0],
       nodes |-> <<>>] }

\* converter = GraphConverter(); converter.convert_analysis_to_graph(file)
\* is entered: the file is loaded (lines 70-73, 89-94)
InitGraph ==
    /\ ConverterIdle
    /\ lookup_case = Idle
    /\ first_run = Idle
    /\ file_run = Idle
    /\ repo_run = Idle
    /\ docker_run = Idle
    /\ helper_call = Idle
    /\ \E analysis_data \in AnalysisFiles :
          graph_run = [pc |-> "packages",
                       conversion |-> 1,
                       analysis_data |-> analysis_data,
                       self |-> NewGraphConverter,
                       graph_nodes |-> <<>>,
                       graph_edges |-> <<>>,
                       packages_info |-> <<>>,
                       graph |-> None]

\* self._build_package_hierarchy(nodes_data) (line 97)
BuildPackageHierarchy ==
    /\ graph_run.pc = "packages"
    /\ graph_run' = [graph_run EXCEPT
                        !.pc = "nodes",
                        !.self = build_package_hierarchy(
                                     @, graph_run.analysis_data.nodes)]
    /\ UNCHANGED << converter, lookup_case, first_run, file_run, repo_run,
                    docker_run, helper_call >>

\* graph_nodes = self._convert_nodes(nodes_data) (line 100)
ConvertNodes ==
    /\ graph_run.pc = "nodes"
    /\ LET converted == convert_nodes(graph_run.self,
                                      graph_run.analysis_data.nodes, <<>>)
       IN  graph_run' = [graph_run EXCEPT
                            !.pc = "edges",
                            !.self = converted.self,
                            !.graph_nodes = converted.graph_nodes]
    /\ UNCHANGED << converter, lookup_case, first_run, file_run, repo_run,
                    docker_run, helper_call >>

\* graph_edges = self._convert_relationships(nodes_data) (line 103)
ConvertRelationships ==
    /\ graph_run.pc = "edges"
    /\ graph_run' = [graph_run EXCEPT
                        !.pc = "info",
                        !.graph_edges = convert_relationships(
                                            graph_run.self,
                                            graph_run.analysis_data.nodes, 1, <<>>)]
    /\ UNCHANGED << converter, lookup_case, first_run, file_run, repo_run,
                    docker_run, helper_call >>

\* packages_info = self._generate_packages_info() (line 106)
GeneratePackagesInfo ==
    /\ graph_run.pc = "info"
    /\ graph_run' = [graph_run EXCEPT
                        !.pc = "statistics",
                        !.packages_info = generate_packages_info(graph_run.self)]
    /\ UNCHANGED << converter, lookup_case, first_run, file_run, repo_run,
                    docker_run, helper_call >>

\* the statistics are calculated and the graph is returned (lines 109-131;
\* no output_file is given)
ReturnGraph ==
    /\ graph_run.pc = "statistics"
    /\ graph_run' = [graph_run EXCEPT
                        !.pc = "returned",
                        !.graph = Some(
                            [nodes |-> graph_run.graph_nodes,
                             edges |-> graph_run.graph_edges,
                             packages |-> graph_run.packages_info,
                             statistics |-> calculate_statistics(
                                                graph_run.graph_nodes,
                                                graph_run.graph_edges,
                                                graph_run.analysis_data),
                             metadata |-> [project_name |->
                                               graph_run.analysis_data.project.name,
                                           converter_version |-> "1.0.0"]])]
    /\ UNCHANGED << converter, lookup_case, first_run, file_run, repo_run,
                    docker_run, helper_call >>

\* the same instance is given another file: the locals are new, the
\* instance's fields are what the earlier conversions left (lines 89-94)
ConvertNextFile ==
    /\ graph_run.pc = "returned"
    /\ graph_run.conversion < MaxConversions
    /\ \E analysis_data \in AnalysisFiles :
          graph_run' = [graph_run EXCEPT
                           !.pc = "packages",
                           !.conversion = @ + 1,
                           !.analysis_data = analysis_data,
                           !.graph_nodes = <<>>,
                           !.graph_edges = <<>>,
                           !.packages_info = <<>>,
                           !.graph = None]
    /\ UNCHANGED << converter, lookup_case, first_run, file_run, repo_run,
                    docker_run, helper_call >>

NextGraph ==
    \/ BuildPackageHierarchy
    \/ ConvertNodes
    \/ ConvertRelationships
    \/ GeneratePackagesInfo
    \/ ReturnGraph
    \/ ConvertNextFile

SpecGraph == InitGraph /\ [][NextGraph]_vars

(***************************************************************************)
(* C30: convert_analysis_to_graph is independent of the converter's        *)
(* history: the graph a conversion returns (nodes, edges, packages,        *)
(* statistics) is the graph a fresh GraphConverter returns for the same    *)
(* file; no id mapping and no package data of an earlier conversion shows  *)
(* in a later one.                                                         *)
(***************************************************************************)
C30_IndependentOfHistory ==
    graph_run.pc = "returned" =>
        graph_run.graph =
            Some(convert_analysis_to_graph(NewGraphConverter,
                                           graph_run.analysis_data))

\* the first conversion of an instance returns what the pure reading of
\* the method gives
C30_FirstConversion ==
    (graph_run.pc = "returned" /\ graph_run.conversion = 1) =>
        graph_run.graph =
            Some(convert_analysis_to_graph(NewGraphConverter,
                                           graph_run.analysis_data))

====
